---- MODULE Spec2Model ----
(***************************************************************************)
(* Qdec table construction and longitudinal symlink reconciliation of      *)
(* scripts/generate_qdec.py (and the copies in scripts/prep_long.py).      *)
(*                                                                         *)
(* Python strings are modelled as sequences of one-character strings, so   *)
(* that pattern matching, trimming, case folding, integer parsing and      *)
(* string comparison are computed, not assumed.                            *)
(***************************************************************************)
EXTENDS Integers, Sequences, FiniteSets, TLC

VARIABLES
    fs,                  \* subjects directory: name -> entry
    fieldnames,          \* header of participants.tsv, in file order
    participants_rows,   \* rows of participants.tsv, cells aligned with fieldnames
    args,                \* parsed command line
    pc,                  \* position in main
    timepoints,          \* result of scan_subjects_dir
    header,              \* Qdec header built by build_qdec_rows
    rows,                \* Qdec rows built by build_qdec_rows
    skipped_missing_sex, \* fsids dropped by the sex gate (the drop warning)
    error,               \* uncaught exception that ended main, or NoError
    qdec_file,           \* the Qdec file: what was passed to write_qdec and its text
    counts,              \* counters of verify_and_link_long
    participant_col,     \* participant-id column resolved by read_participants
    session_col,         \* session-id column resolved by read_participants
    loop_raises,         \* the interpreter: Path.resolve() raises RuntimeError on a
                         \* symlink loop (CPython up to 3.12) or returns a path (3.13 on)
    env,                 \* what a run finds outside: the inputs on disk, the tools on
                         \* PATH and the exit code of each tool
    started,             \* the external tools executed so far, in order
    rc                   \* exit code of main: <<>> while it runs, <<n>> once it ended

vars == <<fs, loop_raises, fieldnames, participants_rows, args, pc, timepoints, header,
          rows, skipped_missing_sex, error, qdec_file, counts, participant_col, session_col,
          env, started, rc>>

-----------------------------------------------------------------------------
(* Bounds of the model *)

MaxDirs == 2
MaxRows == 2

-----------------------------------------------------------------------------
(* Python values *)

\* Python's None; distinct from every string (strings hold one-character items)
None == <<"None">>

Digits == <<"0", "1", "2", "3", "4", "5", "6", "7", "8", "9">>

DigitSet == {Digits[i] : i \in 1..10}

\* value of one decimal digit character, as int() reads it
DigitVal(c) == (CHOOSE i \in 1..10 : Digits[i] = c) - 1

Uppers == <<"A", "B", "C", "D", "E", "F", "G", "H", "I", "J", "K", "L", "M",
            "N", "O", "P", "Q", "R", "S", "T", "U", "V", "W", "X", "Y", "Z">>

Lowers == <<"a", "b", "c", "d", "e", "f", "g", "h", "i", "j", "k", "l", "m",
            "n", "o", "p", "q", "r", "s", "t", "u", "v", "w", "x", "y", "z">>

\* the None an Optional[int] holds: no int the program computes is negative
NoTp == -1

\* str.lower() on one character
LowerChar(c) ==
    IF \E i \in 1..Len(Uppers) : Uppers[i] = c
    THEN Lowers[CHOOSE i \in 1..Len(Uppers) : Uppers[i] = c]
    ELSE c

\* str.lower()
Lower(s) == [i \in 1..Len(s) |-> LowerChar(s[i])]

Whitespace == {" ", "\t", "\n"}

\* str.strip(): drop leading and trailing whitespace
RECURSIVE LStrip(_)
LStrip(s) ==
    IF s # <<>> /\ Head(s) \in Whitespace THEN LStrip(Tail(s)) ELSE s

RECURSIVE RStrip(_)
RStrip(s) ==
    IF s # <<>> /\ s[Len(s)] \in Whitespace
    THEN RStrip(SubSeq(s, 1, Len(s) - 1))
    ELSE s

Strip(s) == RStrip(LStrip(s))

\* s.startswith(p)
StartsWith(s, p) == Len(s) >= Len(p) /\ SubSeq(s, 1, Len(p)) = p

\* p in s (substring test)
Contains(s, p) ==
    \E i \in 1..(Len(s) - Len(p) + 1) : SubSeq(s, i, i + Len(p) - 1) = p

\* position of a letter in an alphabet
LetterIndex(alphabet, c) == CHOOSE i \in 1..Len(alphabet) : alphabet[i] = c

\* code points of the characters the model uses (ord)
Ord(c) ==
    CASE c = "\t" -> 9
      [] c = "\n" -> 10
      [] c = " " -> 32
      [] c = "#" -> 35
      [] c = "(" -> 40
      [] c = ")" -> 41
      [] c = "," -> 44
      [] c = "-" -> 45
      [] c = "." -> 46
      [] c = "/" -> 47
      [] c \in DigitSet -> 48 + DigitVal(c)
      [] c = ":" -> 58
      [] c = ">" -> 62
      [] c \in {Uppers[i] : i \in 1..Len(Uppers)} -> 64 + LetterIndex(Uppers, c)
      [] c = "_" -> 95
      [] c \in {Lowers[i] : i \in 1..Len(Lowers)} -> 96 + LetterIndex(Lowers, c)

\* a < b for Python strings: lexicographic by code point
RECURSIVE StrLess(_, _)
StrLess(a, b) ==
    IF b = <<>> THEN FALSE
    ELSE IF a = <<>> THEN TRUE
    ELSE IF Head(a) = Head(b) THEN StrLess(Tail(a), Tail(b))
    ELSE Ord(Head(a)) < Ord(Head(b))

\* int(s) for a string of decimal digits
RECURSIVE DigitsToInt(_)
DigitsToInt(s) ==
    IF s = <<>> THEN 0
    ELSE 10 * DigitsToInt(SubSeq(s, 1, Len(s) - 1)) + DigitVal(s[Len(s)])

IsDigits(s) == s # <<>> /\ \A i \in 1..Len(s) : s[i] \in DigitSet

\* str(n) for an int n >= 0
RECURSIVE IntToStr(_)
IntToStr(n) ==
    IF n < 10 THEN <<Digits[n + 1]>>
    ELSE Append(IntToStr(n \div 10), Digits[(n % 10) + 1])

\* the regex anchor $: at the end, or just before a newline that ends the string
AtEnd(rest) == rest = <<>> \/ rest = <<"\n">>

-----------------------------------------------------------------------------
(* String constants of the program *)

SUB_PREFIX == <<"s", "u", "b", "-">>

SES_SEP == <<"_">>

SES_PREFIX == <<"s", "e", "s", "-">>

LONG_MARK == <<".", "l", "o", "n", "g", ".">>

NA == <<"n", "/", "a">>

SEX == <<"s", "e", "x">>

MISSING_TOKENS == {<<>>, <<"n", "a">>, <<"n", "/", "a">>, <<"n", "a", "n">>, <<"n", "u", "l", "l">>}

\* the sentinel of sort_key for a tp cell that int() rejects
SORT_SENTINEL == 1000000000

-----------------------------------------------------------------------------
(* The subjects directory *)

\* a directory entry: a real directory (with or without stats/aseg.stats, with
\* or without the other files prep_long.py takes as evidence of a completed run:
\* stats/<hemi>.<parc>.stats, surf/<hemi>.thickness), a regular file, or a symlink
\* holding a target path
NoTarget == [via |-> "none", name |-> <<>>]

DirEntry(hasStats) ==
    [kind |-> "dir", stats |-> hasStats, evidence |-> FALSE, target |-> NoTarget]

\* a directory without stats/aseg.stats that holds surf/lh.thickness
SurfOnlyEntry == [kind |-> "dir", stats |-> FALSE, evidence |-> TRUE, target |-> NoTarget]

FileEntry == [kind |-> "file", stats |-> FALSE, evidence |-> FALSE, target |-> NoTarget]

\* via = "subjects_dir": the path leads to entry `name` of the subjects directory;
\* via = "nested": a relative path that, read from the link's own directory, leads
\* to <subjects_dir>/<subjects_dir>/<name>, which does not exist
LinkEntry(via, name) ==
    [kind |-> "symlink", stats |-> FALSE, evidence |-> FALSE,
     target |-> [via |-> via, name |-> name]]

\* Path.is_symlink()
IsSymlink(f, n) == n \in DOMAIN f /\ f[n].kind = "symlink"

\* the entry a name leads to after following symlinks, or None when the chain
\* breaks (missing target) or does not end (a loop)
RECURSIVE Follow(_, _, _)
Follow(f, n, fuel) ==
    IF n \notin DOMAIN f \/ fuel = 0 THEN None
    ELSE IF f[n].kind # "symlink" THEN n
    ELSE IF f[n].target.via # "subjects_dir" THEN None
    ELSE Follow(f, f[n].target.name, fuel - 1)

FinalName(f, n) == Follow(f, n, Cardinality(DOMAIN f) + 1)

\* Path.exists(): follows symlinks
Exists(f, n) == FinalName(f, n) # None

\* Path.is_dir(): follows symlinks
IsDir(f, n) == Exists(f, n) /\ f[FinalName(f, n)].kind = "dir"

\* a test that takes any directory as processed
HasStats_AnyDir(f, n) == IsDir(f, n)

\* (tp_dir / "stats" / "aseg.stats").exists()
HasStats(f, n) == IsDir(f, n) /\ f[FinalName(f, n)].stats

\* sorted(subjects_dir.iterdir()): the names in ascending string order
RECURSIVE SortedNames(_)
SortedNames(S) ==
    IF S = {} THEN <<>>
    ELSE LET m == CHOOSE x \in S : \A y \in S \ {x} : StrLess(x, y)
         IN  <<m>> \o SortedNames(S \ {m})

-----------------------------------------------------------------------------
(* scan_subjects_dir *)

\* SUBJECT_DIR_PATTERN.match(name) with the base tried at length L first (the
\* base group is lazy, the session group optional and greedy)
RECURSIVE MatchFrom(_, _)
MatchFrom(name, L) ==
    IF L > Len(name) THEN [ok |-> FALSE, base |-> None, ses |-> None]
    ELSE LET rest == SubSeq(name, L + 1, Len(name))
         IN  IF StartsWith(rest, SES_SEP \o SES_PREFIX)
                /\ Len(rest) > Len(SES_SEP \o SES_PREFIX)
             THEN [ok |-> TRUE, base |-> SubSeq(name, 1, L),
                   ses |-> SubSeq(rest, 2, Len(rest))]
             ELSE IF AtEnd(rest)
             THEN [ok |-> TRUE, base |-> SubSeq(name, 1, L), ses |-> None]
             ELSE MatchFrom(name, L + 1)

SubjectDirMatch(name) ==
    IF StartsWith(name, SUB_PREFIX) /\ ~Contains(name, <<"/">>)
    THEN MatchFrom(name, Len(SUB_PREFIX) + 1)
    ELSE [ok |-> FALSE, base |-> None, ses |-> None]

\* mutant: a directory without a session part is kept as an entry
ScanChild_KeepsBaseOnly(f, name) ==
    IF ~IsDir(f, name) THEN <<>>
    ELSE IF Contains(name, LONG_MARK) THEN <<>>
    ELSE LET m == SubjectDirMatch(name)
         IN  IF ~m.ok THEN <<>>
             ELSE <<[fsid |-> name, base |-> m.base, ses |-> m.ses]>>

\* mutant: derivative directories are not filtered out
ScanChild_NoLongFilter(f, name) ==
    IF ~IsDir(f, name) THEN <<>>
    ELSE LET m == SubjectDirMatch(name)
         IN  IF m.ok /\ m.ses # None
             THEN <<[fsid |-> name, base |-> m.base, ses |-> m.ses]>>
             ELSE <<>>

\* the body of the loop of scan_subjects_dir for one child: the entries it appends
ScanChild(f, name) ==
    IF ~IsDir(f, name) THEN <<>>
    ELSE IF Contains(name, LONG_MARK) THEN <<>>
    ELSE LET m == SubjectDirMatch(name)
         IN  IF ~m.ok THEN <<>>
             ELSE IF m.ses # None /\ m.ses # <<>>
             THEN <<[fsid |-> name, base |-> m.base, ses |-> m.ses]>>
             ELSE <<>>

RECURSIVE ScanAll(_, _)
ScanAll(f, names) ==
    IF names = <<>> THEN <<>>
    ELSE ScanChild(f, Head(names)) \o ScanAll(f, Tail(names))

scan_subjects_dir(f) == ScanAll(f, SortedNames(DOMAIN f))

\* SES_NUM_PATTERN.match and int(): the timepoint number, or NoTp for None
session_to_tp(ses_label) ==
    IF ses_label = None THEN NoTp
    ELSE IF StartsWith(ses_label, SES_PREFIX)
    THEN LET tail == SubSeq(ses_label, Len(SES_PREFIX) + 1, Len(ses_label))
             num  == IF tail # <<>> /\ tail[Len(tail)] = "\n"
                     THEN SubSeq(tail, 1, Len(tail) - 1) ELSE tail
         IN  IF IsDigits(num) THEN DigitsToInt(num) ELSE NoTp
    ELSE NoTp

-----------------------------------------------------------------------------
(* read_participants *)

PARTICIPANT_ID == <<"p", "a", "r", "t", "i", "c", "i", "p", "a", "n", "t", "_", "i", "d">>

SESSION_ID == <<"s", "e", "s", "s", "i", "o", "n", "_", "i", "d">>

AGE == <<"a", "g", "e">>

PARTICIPANT_ALIASES == <<<<"p", "a", "r", "t", "i", "c", "i", "p", "a", "n", "t">>, <<"s", "u", "b">>, <<"s", "u", "b", "j", "e", "c", "t", "_", "i", "d">>, <<"s", "u", "b", "j", "e", "c", "t">>>>

SESSION_ALIASES == <<<<"s", "e", "s", "s", "i", "o", "n">>, <<"s", "e", "s">>, <<"v", "i", "s", "i", "t">>>>

\* lower_map = {fn.lower(): fn for fn in fieldnames}: a later column wins
LowerMapHas(fields, k) == \E i \in 1..Len(fields) : Lower(fields[i]) = k

LowerMapGet(fields, k) ==
    fields[CHOOSE i \in 1..Len(fields) :
              /\ Lower(fields[i]) = k
              /\ \A j \in (i + 1)..Len(fields) : Lower(fields[j]) # k]

\* alt in ("participant", ...): membership in an alias tuple
InAliases(aliases, k) == \E i \in 1..Len(aliases) : aliases[i] = k

\* mutant: the first column of the header that is an alias, in header order
ResolveColumn_HeaderOrder(fields, col, aliases) ==
    IF LowerMapHas(fields, Lower(col)) THEN LowerMapGet(fields, Lower(col))
    ELSE IF \E i \in 1..Len(fields) : InAliases(aliases, Lower(fields[i]))
    THEN fields[CHOOSE i \in 1..Len(fields) :
                   /\ InAliases(aliases, Lower(fields[i]))
                   /\ \A j \in 1..(i - 1) : ~InAliases(aliases, Lower(fields[j]))]
    ELSE col

\* the column a configured name resolves to: itself case-insensitively, else the
\* first alias the header has, else the name as configured
ResolveColumn(fields, col, aliases) ==
    IF LowerMapHas(fields, Lower(col)) THEN LowerMapGet(fields, Lower(col))
    ELSE IF \E i \in 1..Len(aliases) : LowerMapHas(fields, aliases[i])
    THEN LowerMapGet(fields,
             aliases[CHOOSE i \in 1..Len(aliases) :
                        /\ LowerMapHas(fields, aliases[i])
                        /\ \A j \in 1..(i - 1) : ~LowerMapHas(fields, aliases[j])])
    ELSE col

\* the two column names read_participants returns
read_participants(fields, a) ==
    [participant_col |-> ResolveColumn(fields, a.participant_column, PARTICIPANT_ALIASES),
     session_col     |-> ResolveColumn(fields, a.session_column, SESSION_ALIASES)]

-----------------------------------------------------------------------------
(* build_qdec_rows *)

\* r.get(c)
Get(r, c) == IF c \in DOMAIN r THEN r[c] ELSE None

\* r.get(c, "n/a")
GetOrNA(r, c) == IF c \in DOMAIN r THEN r[c] ELSE NA

\* available_cols = set(participants_rows[0].keys()) if participants_rows else set()
AvailableCols(prows) == IF prows = <<>> THEN {} ELSE DOMAIN prows[1]

\* the permutations of a finite set, as sequences
Perms(S) ==
    {q \in [1..Cardinality(S) -> S] : \A i, j \in 1..Cardinality(S) : q[i] = q[j] => i = j}

\* [c for c in include_columns if c in available_cols]
RECURSIVE FilterCols(_, _)
FilterCols(cols, avail) ==
    IF cols = <<>> THEN <<>>
    ELSE (IF Head(cols) \in avail THEN <<Head(cols)>> ELSE <<>>)
         \o FilterCols(Tail(cols), avail)

\* the values cols_to_include can take (include_columns = <<>> stands for both
\* None and the empty list): the filtered explicit list, or an iteration
\* of the set available_cols without the identifier columns, whose order the
\* language does not fix (string hashing is randomised per process)
ColsToInclude(prows, pcol, scol, include_columns) ==
    IF include_columns # <<>>
    THEN {FilterCols(include_columns, AvailableCols(prows))}
    ELSE Perms(AvailableCols(prows) \ {pcol, scol})

\* ["fsid", "fsid-base", "tp"]
QDEC_KEYS == <<<<"f", "s", "i", "d">>, <<"f", "s", "i", "d", "-", "b", "a", "s", "e">>, <<"t", "p">>>>

\* mutant: the first row of the participant, whatever its session
find_row_ParticipantOnly(prows, pcol, scol, base, ses) ==
    IF \E i \in 1..Len(prows) : Get(prows[i], pcol) = base
    THEN CHOOSE i \in 1..Len(prows) :
             Get(prows[i], pcol) = base /\ \A j \in 1..(i - 1) : Get(prows[j], pcol) # base
    ELSE 0

\* find_row: the index of the participants row used for (base, ses), 0 for None
find_row(prows, pcol, scol, base, ses) ==
    LET exact == {i \in 1..Len(prows) :
                     Get(prows[i], pcol) = base /\ Get(prows[i], scol) = ses}
        loose == {i \in 1..Len(prows) : Get(prows[i], pcol) = base}
        first(S) == CHOOSE i \in S : \A j \in S : i <= j
    IN  IF scol # None /\ scol # <<>> /\ scol \in AvailableCols(prows)
           /\ ses # None /\ exact # {}
        THEN first(exact)
        ELSE IF loose # {} THEN first(loose)
        ELSE 0

\* mutant: the value is looked up as it stands, neither trimmed nor lowercased
SexMissing_Raw(sex_value) ==
    sex_value = None \/ sex_value \in MISSING_TOKENS

\* norm_sex is None or norm_sex in MISSING_TOKENS
SexMissing(sex_value) ==
    sex_value = None \/ Lower(Strip(sex_value)) \in MISSING_TOKENS

IndexOf(seq, x) == CHOOSE i \in 1..Len(seq) : seq[i] = x /\ \A j \in 1..(i - 1) : seq[j] # x

InSeq(seq, x) == \E i \in 1..Len(seq) : seq[i] = x

\* mutant: the skip-set is not consulted
InSkipSet_Never(skip_set, base) == FALSE

\* if skip_set and base in skip_set
InSkipSet(skip_set, base) == skip_set # {} /\ base \in skip_set

\* mutant: the strict flag is ignored, never raising
RaisesUnmatched_Never(r, strict) == FALSE

\* mutant: the strict flag is ignored, always raising
RaisesUnmatched_Always(r, strict) == r = 0

\* if r is None: if strict: raise ValueError
RaisesUnmatched(r, strict) == r = 0 /\ strict

\* no exception
NoError == [type |-> "none", base |-> <<>>, ses |-> <<>>]

\* the state of the loop over the timepoints
LoopStart == [rows |-> <<>>, skipped |-> <<>>, raised |-> NoError]

\* a loop body that passes over a timepoint without a participants row
LoopBody_DropsUnmatched(acc, tp, prows, pcol, scol, cols, strict, skip_set) ==
    IF acc.raised # NoError THEN acc
    ELSE IF InSkipSet(skip_set, tp.base) THEN acc
    ELSE LET r == find_row(prows, pcol, scol, tp.base, tp.ses)
         IN  IF r = 0 THEN acc
             ELSE LET values == [i \in 1..Len(cols) |-> GetOrNA(prows[r], cols[i])]
                      t      == session_to_tp(tp.ses)
                      tp_str == IF t # NoTp THEN IntToStr(t) ELSE NA
                  IN  IF InSeq(cols, SEX) /\ SexMissing(values[IndexOf(cols, SEX)])
                      THEN [acc EXCEPT !.skipped = Append(@, tp.fsid)]
                      ELSE [acc EXCEPT !.rows = Append(@, <<tp.fsid, tp.base, tp_str>> \o values)]

\* one pass of the loop body for timepoint tp
LoopBody(acc, tp, prows, pcol, scol, cols, strict, skip_set) ==
    IF acc.raised # NoError THEN acc
    ELSE IF InSkipSet(skip_set, tp.base) THEN acc
    ELSE LET r == find_row(prows, pcol, scol, tp.base, tp.ses)
         IN  IF RaisesUnmatched(r, strict)
             THEN [acc EXCEPT !.raised = [type |-> "ValueError", base |-> tp.base, ses |-> tp.ses]]
             ELSE LET values == IF r = 0 THEN [i \in 1..Len(cols) |-> NA]
                                ELSE [i \in 1..Len(cols) |-> GetOrNA(prows[r], cols[i])]
                      t      == session_to_tp(tp.ses)
                      tp_str == IF t # NoTp THEN IntToStr(t) ELSE NA
                  IN  IF InSeq(cols, SEX) /\ SexMissing(values[IndexOf(cols, SEX)])
                      THEN [acc EXCEPT !.skipped = Append(@, tp.fsid)]
                      ELSE [acc EXCEPT !.rows = Append(@, <<tp.fsid, tp.base, tp_str>> \o values)]

RECURSIVE Loop(_, _, _, _, _, _, _, _)
Loop(acc, tps, prows, pcol, scol, cols, strict, skip_set) ==
    IF tps = <<>> THEN acc
    ELSE Loop(LoopBody(acc, Head(tps), prows, pcol, scol, cols, strict, skip_set),
              Tail(tps), prows, pcol, scol, cols, strict, skip_set)

\* mutant: the tp cell is not read as a number
TpVal_Constant(row) == SORT_SENTINEL

\* int(row[2]) with the except branch of sort_key
TpVal(row) == IF IsDigits(row[3]) THEN DigitsToInt(row[3]) ELSE SORT_SENTINEL

\* sort_key(a) < sort_key(b): tuples (base, tp_val, fsid) compared item by item
KeyLess(a, b) ==
    IF a[2] # b[2] THEN StrLess(a[2], b[2])
    ELSE IF TpVal(a) # TpVal(b) THEN TpVal(a) < TpVal(b)
    ELSE StrLess(a[1], b[1])

\* list.sort(key=sort_key): a stable sort, as insertion of each row after the
\* rows whose key is not greater
RECURSIVE Insert(_, _)
Insert(sorted, row) ==
    IF sorted = <<>> THEN <<row>>
    ELSE IF KeyLess(row, Head(sorted)) THEN <<row>> \o sorted
    ELSE <<Head(sorted)>> \o Insert(Tail(sorted), row)

\* mutant: the rows are returned in the order of the loop
SortRows_Unsorted(rs) == rs

RECURSIVE SortRows(_)
SortRows(rs) ==
    IF rs = <<>> THEN <<>>
    ELSE Insert(SortRows(SubSeq(rs, 1, Len(rs) - 1)), rs[Len(rs)])

\* build_qdec_rows with cols_to_include already chosen: what it returns or raises
build_qdec_rows(tps, prows, pcol, scol, cols, strict, skip_set) ==
    LET out == Loop(LoopStart, tps, prows, pcol, scol, cols, strict, skip_set)
    IN  [raised  |-> out.raised,
         header  |-> QDEC_KEYS \o cols,
         rows    |-> IF out.raised = NoError THEN SortRows(out.rows) ELSE <<>>,
         skipped |-> out.skipped]

-----------------------------------------------------------------------------
(* build_skip_set *)

\* str.split(","): the pieces between commas
RECURSIVE SplitComma(_, _)
SplitComma(s, cur) ==
    IF s = <<>> THEN <<cur>>
    ELSE IF Head(s) = "," THEN <<cur>> \o SplitComma(Tail(s), <<>>)
    ELSE SplitComma(Tail(s), Append(cur, Head(s)))

\* the stripped, non-empty tokens of --skip-sub
SkipSubTokens(skip_sub) ==
    IF skip_sub = None \/ skip_sub = <<>> THEN {}
    ELSE LET parts == SplitComma(skip_sub, <<>>)
         IN  {Strip(parts[i]) : i \in 1..Len(parts)} \ {<<>>}

\* the stripped lines of --skip-file that are neither empty nor comments
\* (skip_file = <<>> stands for no file, a missing file and an empty file)
SkipFileTokens(skip_file) ==
    IF skip_file = <<>> THEN {}
    ELSE {Strip(skip_file[i]) : i \in 1..Len(skip_file)}
         \ ({<<>>} \cup {t \in {Strip(skip_file[i]) : i \in 1..Len(skip_file)} :
                            StartsWith(t, <<"#">>)})

build_skip_set(a) == SkipSubTokens(a.skip_sub) \cup SkipFileTokens(a.skip_file)

-----------------------------------------------------------------------------
(* _ensure_symlink and verify_and_link_long (generate_qdec.py) *)

\* Path.resolve() of a path: follow symlinks while the path names one
RECURSIVE ResolvePath(_, _, _)
ResolvePath(f, p, fuel) ==
    IF fuel = 0 THEN [via |-> "loop", name |-> p.name]
    ELSE IF p.via = "subjects_dir" /\ p.name \in DOMAIN f /\ f[p.name].kind = "symlink"
    THEN ResolvePath(f, f[p.name].target, fuel - 1)
    ELSE p

Resolve(f, n) == ResolvePath(f, [via |-> "subjects_dir", name |-> n], Cardinality(DOMAIN f) + 1)

\* Path.is_absolute() of args.subjects_dir
IsAbsolute(path) == StartsWith(path, <<"/">>)

\* str(subjects_dir / name)
PathText(a, name) == a.subjects_dir \o <<"/">> \o name

\* the text symlink_to stores for target_path = subjects_dir / fsid: the path as
\* given, which the system reads from the directory of the link when relative
StoredTarget(a, fsid) ==
    [via |-> IF IsAbsolute(a.subjects_dir) THEN "subjects_dir" ELSE "nested", name |-> fsid]

\* link_path.symlink_to(target_path, target_is_directory=True)
SymlinkTo(f, a, link, fsid) ==
    [n \in DOMAIN f \cup {link} |->
        IF n = link THEN LinkEntry(StoredTarget(a, fsid).via, fsid)
        ELSE f[n]]

\* link_path.unlink()
Unlink(f, link) == [n \in DOMAIN f \ {link} |-> f[n]]

MSG_CORRECT == <<"e", "x", "i", "s", "t", "s", " ", "(", "c", "o", "r", "r", "e", "c", "t", " ", "s", "y", "m", "l", "i", "n", "k", ")", ":", " ">>

MSG_DIFFERENT == <<"e", "x", "i", "s", "t", "s", " ", "(", "s", "y", "m", "l", "i", "n", "k", " ", "t", "o", " ", "d", "i", "f", "f", "e", "r", "e", "n", "t", " ", "t", "a", "r", "g", "e", "t", ",", " ", "u", "s", "e", " ", "-", "-", "l", "i", "n", "k", "-", "f", "o", "r", "c", "e", " ", "t", "o", " ", "u", "p", "d", "a", "t", "e", ")", ":", " ">>

MSG_UPDATED == <<"u", "p", "d", "a", "t", "e", "d", " ", "s", "y", "m", "l", "i", "n", "k", ":", " ">>

MSG_NOT_SYMLINK == <<"e", "x", "i", "s", "t", "s", " ", "(", "n", "o", "t", " ", "a", " ", "s", "y", "m", "l", "i", "n", "k", ",", " ", "s", "k", "i", "p", "p", "i", "n", "g", ")", ":", " ">>

MSG_CREATED == <<"c", "r", "e", "a", "t", "e", "d", " ", "s", "y", "m", "l", "i", "n", "k", ":", " ">>

ARROW == <<" ", "-", ">", " ">>

CREATED == <<"c", "r", "e", "a", "t", "e", "d">>

UPDATED == <<"u", "p", "d", "a", "t", "e", "d">>

\* f"...: {link_path} -> {target_path}"
LinkMessage(prefix, a, link, fsid) ==
    prefix \o PathText(a, link) \o ARROW \o PathText(a, fsid)

\* link_path.resolve() raises: only FileNotFoundError is caught, which a
\* non-strict resolve() does not raise; a symlink loop raises RuntimeError where
\* the interpreter does so
ResolveRaises(f, link) == loop_raises /\ Resolve(f, link).via = "loop"

\* an _ensure_symlink whose force flag also replaces what is not a symlink
ensure_symlink_ForceReplacesAny(f, a, link, fsid, dry_run, force) ==
    IF Exists(f, link) /\ ~IsSymlink(f, link) /\ ~force
    THEN [fs |-> f, changed |-> FALSE, raised |-> FALSE,
          msg |-> MSG_NOT_SYMLINK \o PathText(a, link)]
    ELSE IF link \in DOMAIN f
    THEN [fs |-> IF dry_run THEN f ELSE SymlinkTo(Unlink(f, link), a, link, fsid),
          changed |-> TRUE, raised |-> FALSE,
          msg |-> LinkMessage(MSG_UPDATED, a, link, fsid)]
    ELSE [fs |-> IF dry_run THEN f ELSE SymlinkTo(f, a, link, fsid),
          changed |-> TRUE, raised |-> FALSE,
          msg |-> LinkMessage(MSG_CREATED, a, link, fsid)]

\* _ensure_symlink(link_path, target_path, dry_run, force): the directory after
\* the call, the pair (changed, message) returned, or the exception raised
ensure_symlink(f, a, link, fsid, dry_run, force) ==
    IF IsSymlink(f, link)
    THEN IF ResolveRaises(f, link)
         THEN [fs |-> f, changed |-> FALSE, msg |-> <<>>, raised |-> TRUE]
         ELSE IF Resolve(f, link).via # "loop" /\ Resolve(f, link) = Resolve(f, fsid)
         THEN [fs |-> f, changed |-> FALSE, raised |-> FALSE,
               msg |-> LinkMessage(MSG_CORRECT, a, link, fsid)]
         ELSE IF ~force
         THEN [fs |-> f, changed |-> FALSE, raised |-> FALSE,
               msg |-> MSG_DIFFERENT \o PathText(a, link)]
         ELSE [fs |-> IF dry_run THEN f ELSE SymlinkTo(Unlink(f, link), a, link, fsid),
               changed |-> TRUE, raised |-> FALSE,
               msg |-> LinkMessage(MSG_UPDATED, a, link, fsid)]
    ELSE IF Exists(f, link)
    THEN [fs |-> f, changed |-> FALSE, raised |-> FALSE,
          msg |-> MSG_NOT_SYMLINK \o PathText(a, link)]
    ELSE [fs |-> IF dry_run THEN f ELSE SymlinkTo(f, a, link, fsid),
          changed |-> TRUE, raised |-> FALSE,
          msg |-> LinkMessage(MSG_CREATED, a, link, fsid)]

\* <fsid>.long.<base>
LongName(fsid, base) == fsid \o LONG_MARK \o base

NoCounts ==
    [ran |-> FALSE, created |-> 0, updated |-> 0, skipped |-> 0, present |-> 0,
     missing_stats |-> <<>>]

\* the counters after a message of _ensure_symlink: "created" in msg, else
\* "updated" in msg, else skipped
CountMessage(c, msg) ==
    IF Contains(msg, CREATED) THEN [c EXCEPT !.created = @ + 1]
    ELSE IF Contains(msg, UPDATED) THEN [c EXCEPT !.updated = @ + 1]
    ELSE [c EXCEPT !.skipped = @ + 1]

\* the state of verify_and_link_long before its loop
LinkStart(f) == [fs |-> f, counts |-> [NoCounts EXCEPT !.ran = TRUE], raised |-> FALSE]

\* the body of the loop of verify_and_link_long for one timepoint; st holds the
\* directory, the counters and whether an exception has ended the loop
LinkBody(st, a, tp, link, dry_run, force) ==
    LET f        == st.fs
        long_dir == LongName(tp.fsid, tp.base)
    IN  IF st.raised THEN st
        ELSE IF Contains(tp.fsid, LONG_MARK)
        THEN [st EXCEPT !.counts.skipped = @ + 1]
        ELSE IF Exists(f, long_dir) /\ IsDir(f, long_dir)
        THEN [st EXCEPT !.counts.present = @ + 1]
        ELSE IF ~HasStats(f, tp.fsid)
        THEN [st EXCEPT !.counts.missing_stats = Append(@, tp.fsid),
                        !.counts.skipped = @ + 1]
        ELSE IF link
        THEN LET r == ensure_symlink(f, a, long_dir, tp.fsid, dry_run, force)
             IN  IF r.raised THEN [st EXCEPT !.raised = TRUE]
                 ELSE [fs |-> r.fs, counts |-> CountMessage(st.counts, r.msg), raised |-> FALSE]
        ELSE [st EXCEPT !.counts.skipped = @ + 1]

RECURSIVE LinkLoop(_, _, _, _, _, _)
LinkLoop(st, a, tps, link, dry_run, force) ==
    IF tps = <<>> THEN st
    ELSE LinkLoop(LinkBody(st, a, Head(tps), link, dry_run, force),
                  a, Tail(tps), link, dry_run, force)

verify_and_link_long(f, a, tps, link, dry_run, force) ==
    LinkLoop(LinkStart(f), a, tps, link, dry_run, force)

\* has_multiple_sessions: some base has more than one scanned session
has_multiple_sessions(tps) ==
    \E i, j \in 1..Len(tps) : i # j /\ tps[i].base = tps[j].base

\* a decision that never enables linking by itself
EnableLinking_OnlyOnRequest(a, tps) == a.link_long

\* a decision that does not look at --no-link-long
EnableLinking_IgnoresNoLinkLong(a, tps) == a.link_long \/ has_multiple_sessions(tps)

\* the enable_linking decision of main
EnableLinking(a, tps) ==
    IF a.link_long THEN TRUE
    ELSE IF a.no_link_long THEN FALSE
    ELSE has_multiple_sessions(tps)

-----------------------------------------------------------------------------
(* Inputs *)

SUB01 == <<"s", "u", "b", "-", "0", "1">>

SUB02 == <<"s", "u", "b", "-", "0", "2">>

SES_3 == <<"s", "e", "s", "-", "3">>

SES_03 == <<"s", "e", "s", "-", "0", "3">>

SES_BIG == <<"s", "e", "s", "-", "2", "0", "0", "0", "0", "0", "0", "0", "0", "0">>

SES_PRE == <<"s", "e", "s", "-", "p", "r", "e">>

TpName(base, ses) == base \o SES_SEP \o ses

\* --subjects-dir given as an absolute path
SUBJECTS_DIR == <<"/", "d">>

\* directories that may be present in the subjects directory
DirPool ==
    { [name |-> TpName(SUB01, SES_3),   entry |-> DirEntry(TRUE)],
      [name |-> TpName(SUB01, SES_03),  entry |-> DirEntry(TRUE)],
      [name |-> TpName(SUB01, SES_BIG), entry |-> DirEntry(FALSE)],
      [name |-> TpName(SUB01, SES_PRE), entry |-> DirEntry(TRUE)],
      [name |-> TpName(SUB02, SES_3),   entry |-> DirEntry(TRUE)],
      [name |-> LongName(TpName(SUB02, SES_3), SUB02), entry |-> DirEntry(TRUE)] }

\* the subjects directories of at most MaxDirs entries
DirChoices ==
    { [n \in {d.name : d \in S} |-> (CHOOSE d \in S : d.name = n).entry] :
        S \in {T \in SUBSET DirPool : Cardinality(T) <= MaxDirs} }

\* headers of participants.tsv: with and without a session column
HeaderPool == { <<PARTICIPANT_ID, SESSION_ID, AGE, SEX>>, <<PARTICIPANT_ID, AGE, SEX>> }

\* lines of participants.tsv as (participant, session, age, sex); the last one is
\* short, so csv.DictReader fills its sex cell with None
LinePool ==
    { <<SUB01, SES_3,   <<"3", "0">>, <<"F">>>>,
      <<SUB01, SES_03,  <<"3", "1">>, <<" ", "N", "/", "A">>>>,
      <<SUB02, SES_3,   <<"4", "0">>, <<"n", "a">>>>,
      <<SUB01, SES_PRE, <<"3", "3">>>> }

\* the cell of a line under a column of the header (restval None when short)
Cell(fields, line, c) ==
    LET cells == IF InSeq(fields, SESSION_ID) THEN line
                 ELSE <<line[1]>> \o SubSeq(line, 3, Len(line))
        i     == IndexOf(fields, c)
    IN  IF i <= Len(cells) THEN cells[i] ELSE None

\* dict(row) of csv.DictReader
DictRow(fields, line) == [c \in {fields[i] : i \in 1..Len(fields)} |-> Cell(fields, line, c)]

\* the sequences of at most n different members of S
SeqsUpTo(S, n) ==
    {q \in UNION {[1..k -> S] : k \in 0..n} : \A i, j \in 1..Len(q) : q[i] = q[j] => i = j}

\* --include-columns: absent, or an explicit list
IncludePool == { <<>>, <<AGE>> }

\* --skip-sub: absent, or a comma-separated list
SkipPool == { None, <<" ", "s", "u", "b", "-", "0", "1", ",">> }

ArgsPool ==
    [ participant_column : {PARTICIPANT_ID},
      session_column     : {SESSION_ID},
      include_columns    : IncludePool,
      strict             : BOOLEAN,
      skip_sub           : SkipPool,
      skip_file          : {<<>>},
      subjects_dir       : {SUBJECTS_DIR},
      verify_long        : {FALSE},
      link_long          : {FALSE},
      no_link_long       : {FALSE},
      link_dry_run       : {FALSE},
      link_force         : {FALSE} ]

-----------------------------------------------------------------------------
(* write_qdec, and read_qdec of apply_qdec.py *)

\* csv.writer(f, dialect=csv.excel_tab) quotes a cell that holds the delimiter,
\* the quote character or a character of the line terminator
NeedsQuotes(cell) == \E i \in 1..Len(cell) : cell[i] \in {"\t", "\"", "\r", "\n"}

\* the characters of a quoted cell: a quote is doubled
RECURSIVE Doubled(_)
Doubled(cell) ==
    IF cell = <<>> THEN <<>>
    ELSE (IF Head(cell) = "\"" THEN <<"\"", "\"">> ELSE <<Head(cell)>>)
         \o Doubled(Tail(cell))

\* a cell as the writer puts it out; None is written as the empty string
WriteCell(cell) ==
    IF cell = None THEN <<>>
    ELSE IF NeedsQuotes(cell) THEN <<"\"">> \o Doubled(cell) \o <<"\"">>
    ELSE cell

\* the cells of a row joined by tabs
RECURSIVE JoinCells(_)
JoinCells(row) ==
    IF row = <<>> THEN <<>>
    ELSE IF Len(row) = 1 THEN WriteCell(row[1])
    ELSE WriteCell(Head(row)) \o <<"\t">> \o JoinCells(Tail(row))

\* writer.writerow(row): the joined cells (a single empty cell is quoted), then
\* the line terminator "\r\n"
writerow(row) ==
    (IF Len(row) = 1 /\ WriteCell(row[1]) = <<>> THEN <<"\"", "\"">> ELSE JoinCells(row))
    \o <<"\r", "\n">>

RECURSIVE writerows(_)
writerows(rs) == IF rs = <<>> THEN <<>> ELSE writerow(Head(rs)) \o writerows(Tail(rs))

\* write_qdec(output_path, header, rows): the text of the file
write_qdec(hdr, rs) == writerow(hdr) \o writerows(rs)

\* the parser of csv.reader, one character at a time: the records read so far,
\* the cells of the record being read, the cell being read, the parser state
ReaderStart == [records |-> <<>>, cells |-> <<>>, cell |-> <<>>, state |-> "start_record"]

\* the cell being read ends
SaveField(st) == [st EXCEPT !.cells = Append(@, st.cell), !.cell = <<>>]

\* the record being read ends; "\r" may be followed by the "\n" of the same line end
EndRecord(st, c) ==
    [records |-> Append(st.records, st.cells), cells |-> <<>>, cell |-> <<>>,
     state   |-> IF c = "\r" THEN "eat_crnl" ELSE "start_record"]

ReaderStep(st, c) ==
    LET eol == c \in {"\r", "\n"}
        add == [st EXCEPT !.cell = Append(@, c), !.state = "in_field"]
    IN  CASE st.state = "eat_crnl" /\ c = "\n" -> [st EXCEPT !.state = "start_record"]
          [] st.state \in {"start_record", "eat_crnl", "start_field"} ->
                IF eol THEN EndRecord(IF st.state = "start_field" THEN SaveField(st)
                                      ELSE st, c)
                ELSE IF c = "\"" THEN [st EXCEPT !.state = "in_quoted_field"]
                ELSE IF c = "\t" THEN [SaveField(st) EXCEPT !.state = "start_field"]
                ELSE add
          [] st.state = "in_field" ->
                IF eol THEN EndRecord(SaveField(st), c)
                ELSE IF c = "\t" THEN [SaveField(st) EXCEPT !.state = "start_field"]
                ELSE add
          [] st.state = "in_quoted_field" ->
                IF c = "\"" THEN [st EXCEPT !.state = "quote_in_quoted_field"]
                ELSE [st EXCEPT !.cell = Append(@, c)]
          [] st.state = "quote_in_quoted_field" ->
                IF c = "\"" THEN [st EXCEPT !.cell = Append(@, c),
                                            !.state = "in_quoted_field"]
                ELSE IF eol THEN EndRecord(SaveField(st), c)
                ELSE IF c = "\t" THEN [SaveField(st) EXCEPT !.state = "start_field"]
                ELSE add

RECURSIVE ReaderRun(_, _, _)
ReaderRun(st, text, i) ==
    IF st.state # "" /\ i > Len(text) THEN st
    ELSE ReaderRun(ReaderStep(st, text[i]), text, i + 1)

\* list(csv.reader(f, dialect=csv.excel_tab)): a record that the end of the file
\* cuts short is returned as read so far
csv_reader(text) ==
    LET st == ReaderRun(ReaderStart, text, 1)
    IN  IF st.state \in {"start_record", "eat_crnl"} THEN st.records
        ELSE Append(st.records, Append(st.cells, st.cell))

\* the names bound at module level in apply_qdec.py: what its imports and its
\* definitions bind (sys, subprocess, Path, the functions)
ApplyQdecGlobals ==
    { "annotations", "sys", "subprocess", "Path", "main", "read_qdec",
      "detect_study_type", "scan_subjects_dir", "session_to_tp", "build_qdec_rows",
      "scan_bids_subjects", "summarize_consistency", "write_qdec", "_ensure_symlink",
      "verify_and_link_long", "run_asegstats2table", "run_surf_mass_univariate",
      "run_fsqc", "run_aparcstats2table" }

\* the result of read_qdec on a file without data rows
NoTimepoints == [raised |-> "none", timepoints |-> <<>>]

\* the loop of read_qdec over the data rows
RECURSIVE ReadLoop(_, _, _, _)
ReadLoop(globals, data_rows, fsid_idx, base_idx) ==
    IF data_rows = <<>> THEN NoTimepoints
    ELSE LET row  == Head(data_rows)
             most == IF fsid_idx > base_idx THEN fsid_idx ELSE base_idx
             m    == SubjectDirMatch(row[fsid_idx])
             rest == ReadLoop(globals, Tail(data_rows), fsid_idx, base_idx)
         IN  IF Len(row) < most THEN rest
             ELSE IF "SUBJECT_DIR_PATTERN" \notin globals
             THEN [raised |-> "NameError", timepoints |-> <<>>]
             ELSE IF rest.raised # "none" THEN rest
             ELSE [raised     |-> "none",
                   timepoints |-> <<[fsid |-> row[fsid_idx], base |-> row[base_idx],
                                     ses  |-> IF m.ok THEN m.ses ELSE None]>>
                                  \o rest.timepoints]

\* read_qdec(qdec_path) of apply_qdec.py, run with these module-level names
read_qdec(globals, file) ==
    IF ~file.written THEN [raised |-> "FileNotFoundError", timepoints |-> <<>>]
    ELSE IF "csv" \notin globals THEN [raised |-> "NameError", timepoints |-> <<>>]
    ELSE LET all == csv_reader(file.text)
         IN  IF all = <<>> THEN [raised |-> "ValueError", timepoints |-> <<>>]
             ELSE IF ~InSeq(all[1], QDEC_KEYS[1]) \/ ~InSeq(all[1], QDEC_KEYS[2])
             THEN [raised |-> "ValueError", timepoints |-> <<>>]
             ELSE ReadLoop(globals, Tail(all), IndexOf(all[1], QDEC_KEYS[1]),
                           IndexOf(all[1], QDEC_KEYS[2]))

NoFile == [written |-> FALSE, header |-> <<>>, rows |-> <<>>, text |-> <<>>]

\* sniffer.has_header(sample) returns (its result is not used) instead of raising
\* csv.Error "Could not determine delimiter", which main does not catch: of the
\* tables of the pool, csv.Sniffer rejects those that mix the short line with full
\* lines under the four-column header
SnifferAccepts(fields, lines) ==
    ~(/\ InSeq(fields, SESSION_ID)
      /\ Len(lines) > 1
      /\ \E i \in 1..Len(lines) : Len(lines[i]) < Len(fields))

\* the external tools of prep_long.py, as shutil.which looks them up
TOOLS == {"asegstats2table", "aparcstats2table", "mris_preproc", "mri_surf2surf",
          "run_fsqc"}

\* an environment in which nothing is missing and every tool exits with 0:
\* participants  args.participants.exists()
\* subjects_dir  "dir", "file" (exists, is no directory) or "missing"
\* path          the tools shutil.which finds
\* *_exit        the exit code of each invocation of a tool (aparcstats2table is
\*               invoked once per hemisphere and measure: two invocations)
\* aparc_stats   the preflight glob of run_aparcstats2table finds a stats file
\* surf_files    a row of the Qdec file has its surface file (kept > 0)
OkEnv ==
    [ participants   |-> TRUE,
      subjects_dir   |-> "dir",
      path           |-> TOOLS,
      aseg_exit      |-> 0,
      aparc_exit     |-> <<0, 0>>,
      mris_exit      |-> 0,
      surf2surf_exit |-> 0,
      fsqc_exit      |-> 0,
      aparc_stats    |-> TRUE,
      surf_files     |-> TRUE ]

\* existence checks that look at the participants file only
ExistenceChecks_ParticipantsOnly(e) == IF ~e.participants THEN 2 ELSE 0

\* if not args.participants.exists(): return 2
\* if not args.subjects_dir.exists() or not args.subjects_dir.is_dir(): return 2
ExistenceChecks(e) == IF ~e.participants \/ e.subjects_dir # "dir" THEN 2 ELSE 0

-----------------------------------------------------------------------------
(* main of generate_qdec.py *)

Init ==
    /\ fs \in DirChoices
    /\ fieldnames \in HeaderPool
    /\ \E lines \in SeqsUpTo(LinePool, MaxRows) :
          /\ SnifferAccepts(fieldnames, lines)
          /\ participants_rows = [i \in 1..Len(lines) |-> DictRow(fieldnames, lines[i])]
    /\ args \in ArgsPool
    /\ pc = "start"
    /\ timepoints = <<>>
    /\ header = <<>>
    /\ rows = <<>>
    /\ skipped_missing_sex = <<>>
    /\ error = NoError
    /\ qdec_file = NoFile
    /\ counts = NoCounts
    /\ participant_col = <<>>
    /\ session_col = <<>>
    /\ loop_raises = TRUE
    /\ env = OkEnv
    /\ started = <<>>
    /\ rc = <<>>

\* main up to the scan: the existence checks (return 2), then
\* read_participants(...), then timepoints = scan_subjects_dir(args.subjects_dir)
Scan ==
    /\ pc = "start"
    /\ IF ExistenceChecks(env) # 0
       THEN /\ rc' = <<ExistenceChecks(env)>>
            /\ pc' = "exit"
            /\ UNCHANGED <<participant_col, session_col, timepoints>>
       ELSE /\ participant_col' = read_participants(fieldnames, args).participant_col
            /\ session_col' = read_participants(fieldnames, args).session_col
            /\ timepoints' = scan_subjects_dir(fs)
            /\ pc' = "scanned"
            /\ UNCHANGED rc
    /\ UNCHANGED <<fs, loop_raises, fieldnames, participants_rows, args, header, rows,
                   skipped_missing_sex, error, qdec_file, counts, env, started>>

\* skip_set or None: the empty set stands for None, both are false in the loop
SkipArg(a) == build_skip_set(a)

\* header, rows = build_qdec_rows(...); a ValueError is not caught and ends main
Build ==
    /\ pc = "scanned"
    /\ \E cols \in ColsToInclude(participants_rows, participant_col, session_col,
                                 args.include_columns) :
          LET res == build_qdec_rows(timepoints, participants_rows, participant_col,
                                     session_col, cols, args.strict, SkipArg(args))
          IN  IF res.raised # NoError
              THEN /\ error' = res.raised
                   /\ pc' = "crashed"
                   /\ rc' = <<1>>
                   /\ UNCHANGED <<header, rows, skipped_missing_sex>>
              ELSE /\ header' = res.header
                   /\ rows' = res.rows
                   /\ skipped_missing_sex' = res.skipped
                   /\ pc' = "built"
                   /\ UNCHANGED <<error, rc>>
    /\ UNCHANGED <<fs, loop_raises, fieldnames, participants_rows, args, timepoints,
                   qdec_file, counts, participant_col, session_col, env, started>>

\* write_qdec(out_path, header, rows)
Write ==
    /\ pc = "built"
    /\ qdec_file' = [written |-> TRUE, header |-> header, rows |-> rows,
                     text |-> write_qdec(header, rows)]
    /\ pc' = "written"
    /\ UNCHANGED <<fs, loop_raises, fieldnames, participants_rows, args, timepoints,
                   header, rows, skipped_missing_sex, error, counts, participant_col,
                   session_col, env, started, rc>>

\* the exception of Path.resolve() on a symlink loop
LoopError == [type |-> "RuntimeError", base |-> <<>>, ses |-> <<>>]

\* if args.verify_long or enable_linking: verify_and_link_long(...); return 0.
\* An exception of the reconciler is not caught and ends main after the changes
\* made so far; an uncaught exception makes the interpreter exit with status 1
Reconcile ==
    /\ pc = "written"
    /\ LET link == EnableLinking(args, timepoints)
           out  == verify_and_link_long(fs, args, timepoints, link,
                                        args.link_dry_run, args.link_force)
       IN  IF args.verify_long \/ link
           THEN /\ fs' = out.fs
                /\ IF out.raised
                   THEN /\ error' = LoopError /\ pc' = "crashed" /\ rc' = <<1>>
                        /\ UNCHANGED counts
                   ELSE /\ counts' = out.counts /\ pc' = "done" /\ rc' = <<0>>
                        /\ UNCHANGED error
           ELSE pc' = "done" /\ rc' = <<0>> /\ UNCHANGED <<fs, counts, error>>
    /\ UNCHANGED <<loop_raises, fieldnames, participants_rows, args, timepoints, header,
                   rows, skipped_missing_sex, qdec_file, participant_col, session_col,
                   env, started>>

\* the same command line is run again on the directory the last run left, with
\* an output path that does not exist yet
Rerun ==
    /\ pc \in {"done", "crashed"}
    /\ pc' = "start"
    /\ timepoints' = <<>>
    /\ header' = <<>>
    /\ rows' = <<>>
    /\ skipped_missing_sex' = <<>>
    /\ error' = NoError
    /\ qdec_file' = NoFile
    /\ counts' = NoCounts
    /\ participant_col' = <<>>
    /\ session_col' = <<>>
    /\ rc' = <<>>
    /\ UNCHANGED <<fs, loop_raises, fieldnames, participants_rows, args, env, started>>

Next == Scan \/ Build \/ Write \/ Reconcile \/ Rerun

Spec == Init /\ [][Next]_vars

-----------------------------------------------------------------------------
(* Vocabulary of the properties *)

\* build_qdec_rows has just returned
Built == pc = "built"

\* the covariate columns of the built header
Covariates == SubSeq(header, 4, Len(header))

SexIncluded == InSeq(Covariates, SEX)

\* indices of the scanned timepoints the skip-set leaves
Kept == {i \in 1..Len(timepoints) : timepoints[i].base \notin build_skip_set(args)}

\* the fsid cells of the output rows
RowFsids == {rows[k][1] : k \in 1..Len(rows)}

SexDropped == {skipped_missing_sex[k] : k \in 1..Len(skipped_missing_sex)}

\* the participants rows whose participant-id equals a base
RowsOf(base) == {i \in 1..Len(participants_rows) :
                    Get(participants_rows[i], participant_col) = base}

\* the sex value a timepoint resolves to: the cell of its participants row, or the
\* sentinel when it has none
ResolvedSex(tp) ==
    LET r == find_row(participants_rows, participant_col, session_col, tp.base, tp.ses)
    IN  IF r = 0 THEN NA ELSE GetOrNA(participants_rows[r], SEX)

\* a sex value that is no cell at all, or is empty or a missing-value token once
\* trimmed and lowercased
MissingSexValue(v) ==
    \/ v = None
    \/ Lower(Strip(v)) \in {<<>>, <<"n", "a">>, <<"n", "/", "a">>, <<"n", "a", "n">>, <<"n", "u", "l", "l">>}

-----------------------------------------------------------------------------
(* C1: when sex is an included column, exactly the timepoints whose resolved sex
   value is missing (empty or na, n/a, nan, null after trimming and lowercasing)
   are absent from the rows and listed in the drop warning; every other kept
   timepoint has a row, and without a sex column nothing is dropped. *)
C1_SexGate ==
    Built =>
        /\ \A i \in Kept :
              LET tp == timepoints[i]
              IN  IF SexIncluded /\ MissingSexValue(ResolvedSex(tp))
                  THEN tp.fsid \notin RowFsids /\ tp.fsid \in SexDropped
                  ELSE tp.fsid \in RowFsids /\ tp.fsid \notin SexDropped
        /\ ~SexIncluded => skipped_missing_sex = <<>>
        /\ Len(skipped_missing_sex) = Cardinality(SexDropped)

\* a timepoint dropped for a sex cell that is a token only after trimming and
\* lowercasing, beside a timepoint that is kept
C1_Witness ==
    /\ Built
    /\ SexIncluded
    /\ rows # <<>>
    /\ \E i \in Kept :
          /\ timepoints[i].fsid \in SexDropped
          /\ ResolvedSex(timepoints[i]) # None
          /\ ResolvedSex(timepoints[i]) # Lower(Strip(ResolvedSex(timepoints[i])))

-----------------------------------------------------------------------------
\* the sort key the documentation names: (fsid_base, numeric tp or sentinel, fsid)
DocTp(row) == IF row[3] = NA THEN SORT_SENTINEL ELSE DigitsToInt(row[3])

DocKeyLeq(a, b) ==
    \/ StrLess(a[2], b[2])
    \/ a[2] = b[2] /\ DocTp(a) < DocTp(b)
    \/ a[2] = b[2] /\ DocTp(a) = DocTp(b) /\ (a[1] = b[1] \/ StrLess(a[1], b[1]))

\* the rows build_qdec_rows returns for the scanned timepoints supplied in order q
RowsFor(q) ==
    build_qdec_rows([i \in 1..Len(timepoints) |-> timepoints[q[i]]], participants_rows,
                    participant_col, session_col, Covariates, args.strict,
                    SkipArg(args)).rows

(* C2: the returned rows are in nondecreasing order of (fsid_base, numeric tp or
   sentinel, fsid), and every order of the same scanned timepoints gives the same
   row list. *)
C2_SortedAnyOrder ==
    Built =>
        /\ \A i, j \in 1..Len(rows) : i < j => DocKeyLeq(rows[i], rows[j])
        /\ \A q \in Perms(1..Len(timepoints)) : RowsFor(q) = rows

\* two rows that the sort has put in the opposite order of the scan
C2_Witness ==
    /\ Built
    /\ \E i, j \in 1..Len(rows) :
          /\ i < j
          /\ \E a, b \in 1..Len(timepoints) :
                a > b /\ timepoints[a].fsid = rows[i][1] /\ timepoints[b].fsid = rows[j][1]

-----------------------------------------------------------------------------
\* a tp cell that holds a number
NumericTp(row) == row[3] # NA

(* C3 as stated: of two rows of one fsid_base with numeric tp, the earlier row
   has the strictly smaller tp. *)
C3_StrictTpOrder ==
    Built =>
        \A i, j \in 1..Len(rows) :
            (i < j /\ rows[i][2] = rows[j][2] /\ NumericTp(rows[i]) /\ NumericTp(rows[j]))
                => DigitsToInt(rows[i][3]) < DigitsToInt(rows[j][3])

(* C3 amended: of two rows of one fsid_base with numeric tp, the earlier row has
   the smaller or equal tp, and when the two tp are equal (session labels that
   denote the same integer) the earlier row has the smaller fsid. *)
C3_TpOrder ==
    Built =>
        \A i, j \in 1..Len(rows) :
            (i < j /\ rows[i][2] = rows[j][2] /\ NumericTp(rows[i]) /\ NumericTp(rows[j]))
                => \/ DigitsToInt(rows[i][3]) < DigitsToInt(rows[j][3])
                   \/ /\ DigitsToInt(rows[i][3]) = DigitsToInt(rows[j][3])
                      /\ StrLess(rows[i][1], rows[j][1])

\* two rows of one subject whose session labels differ and give different numbers,
\* supplied by the scan in the opposite order
C3_Witness ==
    /\ Built
    /\ \E i, j \in 1..Len(rows) :
          /\ i < j
          /\ rows[i][2] = rows[j][2]
          /\ NumericTp(rows[i]) /\ NumericTp(rows[j])
          /\ DigitsToInt(rows[i][3]) < DigitsToInt(rows[j][3])
          /\ StrLess(rows[j][1], rows[i][1])

-----------------------------------------------------------------------------
(* C4: within one fsid_base every row whose tp is n/a comes after every row whose
   tp is numeric. *)
C4_NonNumericLast ==
    Built =>
        \A i, j \in 1..Len(rows) :
            (rows[i][2] = rows[j][2] /\ ~NumericTp(rows[i]) /\ NumericTp(rows[j]))
                => j < i

-----------------------------------------------------------------------------
(* C5: no output row has an fsid_base of the skip-set, no skipped timepoint is in
   the sex drop warning, and the strict-mode error never names one. *)
C5_SkipSet ==
    pc \in {"built", "crashed"} =>
        /\ \A k \in 1..Len(rows) : rows[k][2] \notin build_skip_set(args)
        /\ \A i \in 1..Len(timepoints) :
              timepoints[i].base \in build_skip_set(args)
                  => timepoints[i].fsid \notin SexDropped \cup RowFsids
        /\ pc = "crashed" => error.base \notin build_skip_set(args)

\* a strict run that returned rows although a skipped timepoint has no
\* participants row
C5_Witness ==
    /\ Built
    /\ args.strict
    /\ rows # <<>>
    /\ \E i \in 1..Len(timepoints) :
          /\ timepoints[i].base \in build_skip_set(args)
          /\ RowsOf(timepoints[i].base) = {}

-----------------------------------------------------------------------------
\* the scanned timepoints of directory f that the skip-set leaves and that have no
\* participants row with their fsid_base as participant-id
UnmatchedIn(f) ==
    LET tps  == scan_subjects_dir(f)
        pcol == read_participants(fieldnames, args).participant_col
    IN  {tp \in {tps[i] : i \in 1..Len(tps)} :
            /\ tp.base \notin build_skip_set(args)
            /\ \A i \in 1..Len(participants_rows) : Get(participants_rows[i], pcol) # tp.base}

(* C6: in a strict run where some kept timepoint has no participants row, no step
   writes the Qdec file or changes the subjects directory, and build_qdec_rows
   ends the run with a ValueError that names such a timepoint. *)
C6_StrictFails ==
    [][(args.strict /\ UnmatchedIn(fs) # {}) =>
          /\ fs' = fs
          /\ qdec_file' = NoFile
          /\ pc = "scanned" =>
                /\ pc' = "crashed"
                /\ error'.type = "ValueError"
                /\ \E tp \in UnmatchedIn(fs) : error'.base = tp.base /\ error'.ses = tp.ses]_vars

\* the run has failed on a directory where the reconciler would have linked
C6_Witness ==
    /\ pc = "crashed"
    /\ error.type = "ValueError"
    /\ EnableLinking(args, timepoints)
    /\ \E i \in 1..Len(timepoints) : HasStats(fs, timepoints[i].fsid)

-----------------------------------------------------------------------------
\* the rows whose fsid is that of timepoint tp
RowsOfTp(tp) == {k \in 1..Len(rows) : rows[k][1] = tp.fsid}

AllNA(row) == \A k \in 4..Len(row) : row[k] = NA

(* C7 as stated: in a non-strict run every kept timepoint without a participants
   row is emitted as a row whose covariates are all n/a. *)
C7_UnmatchedEmitted ==
    /\ ~args.strict => pc # "crashed"
    /\ (Built /\ ~args.strict) =>
          \A i \in Kept :
              RowsOf(timepoints[i].base) = {}
                  => \E k \in RowsOfTp(timepoints[i]) : AllNA(rows[k])

(* C7 amended: a non-strict run never fails on a kept timepoint without a
   participants row; every covariate of the timepoint is n/a, so its row is
   emitted with n/a in every covariate cell when sex is not an included column,
   and when sex is included the timepoint is dropped by the sex gate and listed
   in the drop warning. *)
C7_UnmatchedFilled ==
    /\ ~args.strict => pc # "crashed"
    /\ (Built /\ ~args.strict) =>
          \A i \in Kept :
              RowsOf(timepoints[i].base) = {}
                  => IF SexIncluded
                     THEN RowsOfTp(timepoints[i]) = {} /\ timepoints[i].fsid \in SexDropped
                     ELSE /\ \E k \in RowsOfTp(timepoints[i]) :
                                AllNA(rows[k]) /\ Len(rows[k]) = Len(header)
                          /\ timepoints[i].fsid \notin SexDropped

\* an unmatched timepoint emitted with a covariate cell
C7_Witness ==
    /\ Built
    /\ ~args.strict
    /\ ~SexIncluded
    /\ Len(header) > 3
    /\ \E i \in Kept :
          RowsOf(timepoints[i].base) = {} /\ RowsOfTp(timepoints[i]) # {}

-----------------------------------------------------------------------------
\* the participants row the documentation names for a timepoint: the first with
\* its participant-id and session-id when the table has the session column, else
\* the first with its participant-id; 0 when there is none
FirstOf(S) == CHOOSE i \in S : \A j \in S : i <= j

DocRow(tp) ==
    LET exact == {i \in RowsOf(tp.base) : Get(participants_rows[i], session_col) = tp.ses}
    IN  IF InSeq(fieldnames, session_col) /\ exact # {} THEN FirstOf(exact)
        ELSE IF RowsOf(tp.base) # {} THEN FirstOf(RowsOf(tp.base))
        ELSE 0

(* C8: the covariates of every output row are the cells of the first participants
   row with the timepoint's participant-id and session-id when the session column
   exists, and otherwise of the first row with its participant-id. *)
C8_RowChoice ==
    Built =>
        \A i \in Kept :
            \A k \in RowsOfTp(timepoints[i]) :
                DocRow(timepoints[i]) # 0 =>
                    \A c \in 1..Len(Covariates) :
                        rows[k][3 + c] = participants_rows[DocRow(timepoints[i])][Covariates[c]]

\* a row taken from a later participants row of the participant, by its session
C8_Witness ==
    /\ Built
    /\ Covariates # <<>>
    /\ \E i \in Kept :
          /\ RowsOfTp(timepoints[i]) # {}
          /\ DocRow(timepoints[i]) # 0
          /\ DocRow(timepoints[i]) > FirstOf(RowsOf(timepoints[i].base))

-----------------------------------------------------------------------------
\* the columns of the participants table other than the two identifier columns,
\* in the order of the table
RECURSIVE TableCovariates(_)
TableCovariates(fields) ==
    IF fields = <<>> THEN <<>>
    ELSE (IF Head(fields) \in {participant_col, session_col} THEN <<>> ELSE <<Head(fields)>>)
         \o TableCovariates(Tail(fields))

(* C9: without an explicit include list the header is fsid, fsid-base, tp followed
   by the non-identifier columns of the participants table in table order (stated
   here for a table that has at least one row). *)
C9_HeaderOrder ==
    (Built /\ args.include_columns = <<>> /\ participants_rows # <<>>) =>
        header = QDEC_KEYS \o TableCovariates(fieldnames)

-----------------------------------------------------------------------------
NoLongEntry(tps) == \A i \in 1..Len(tps) : ~Contains(tps[i].fsid, LONG_MARK)

(* C10: scan_subjects_dir returns no entry whose name contains .long., on the
   directory it was run on and on every directory a run leaves. *)
C10_NoLongScanned ==
    /\ NoLongEntry(timepoints)
    /\ pc \in {"start", "done", "crashed"} => NoLongEntry(scan_subjects_dir(fs))

\* a scan has run on a directory that holds a .long. symlink made by the
\* reconciler and returned timepoints
C10_Witness ==
    /\ pc = "scanned"
    /\ timepoints # <<>>
    /\ \E n \in DOMAIN fs :
          Contains(n, LONG_MARK) /\ IsSymlink(fs, n) /\ IsDir(fs, n) /\ SubjectDirMatch(n).ok

-----------------------------------------------------------------------------
(* Inputs that exercise the scanner and the participants reader *)

SUB_ONLY == <<"s", "u", "b", "-", "0", "1">>

SES_1 == <<"s", "e", "s", "-", "1">>

SES_01 == <<"s", "e", "s", "-", "0", "1">>

SES_0 == <<"s", "e", "s", "-", "0">>

SES_1A == <<"s", "e", "s", "-", "1", "a">>

SES_1_NL == <<"s", "e", "s", "-", "1", "\n">>

SES_1_SES_2 == <<"s", "e", "s", "-", "1", "_", "s", "e", "s", "-", "2">>

FSAVERAGE == <<"f", "s", "a", "v", "e", "r", "a", "g", "e">>

\* children of the subjects directory: timepoint directories with numeric and
\* other labels (one label ends in a newline, one holds a second _ses-), a
\* base-only directory, a directory whose session part is empty, a directory that
\* is no subject, a regular file and a symlink named like timepoints
ScanDirPool ==
    { [name |-> SUB_ONLY,                        entry |-> DirEntry(TRUE)],
      [name |-> TpName(SUB01, SES_1),            entry |-> DirEntry(TRUE)],
      [name |-> TpName(SUB01, SES_01),           entry |-> DirEntry(TRUE)],
      [name |-> TpName(SUB01, SES_0),            entry |-> DirEntry(FALSE)],
      [name |-> TpName(SUB01, SES_PREFIX),       entry |-> DirEntry(TRUE)],
      [name |-> TpName(SUB01, SES_1_NL),         entry |-> DirEntry(TRUE)],
      [name |-> TpName(SUB01, SES_1A),           entry |-> DirEntry(TRUE)],
      [name |-> TpName(SUB01, SES_PRE),          entry |-> DirEntry(TRUE)],
      [name |-> TpName(SUB01, SES_1_SES_2),      entry |-> DirEntry(TRUE)],
      [name |-> FSAVERAGE,                       entry |-> DirEntry(FALSE)],
      [name |-> TpName(SUB02, SES_1),            entry |-> FileEntry],
      [name |-> TpName(SUB02, SES_3),            entry |-> LinkEntry("subjects_dir", TpName(SUB01, SES_1))] }

\* the subjects directories of at most MaxDirs of these children
ScanDirChoices ==
    { [n \in {d.name : d \in S} |-> (CHOOSE d \in S : d.name = n).entry] :
        S \in {T \in SUBSET ScanDirPool : Cardinality(T) <= MaxDirs} }

PARTICIPANT_ID_CAPS == <<"P", "a", "r", "t", "i", "c", "i", "p", "a", "n", "t", "_", "I", "D">>

SESSION_ID_CAPS == <<"S", "E", "S", "S", "I", "O", "N", "_", "I", "D">>

ALIAS_SUB == <<"s", "u", "b">>

ALIAS_SUB_CAPS == <<"S", "U", "B">>

ALIAS_SUBJECT == <<"s", "u", "b", "j", "e", "c", "t">>

ALIAS_SUBJECT_ID == <<"S", "u", "b", "j", "e", "c", "t", "_", "I", "D">>

ALIAS_SES == <<"s", "e", "s">>

ALIAS_VISIT == <<"V", "i", "s", "i", "t">>

COLUMN_ID == <<"i", "d">>

\* headers of participants.tsv: the configured names as spelled, in another case,
\* in two cases at once, replaced by aliases (in an order that is not the order
\* of the alias lists), and absent without alias
ScanHeaderPool ==
    { <<PARTICIPANT_ID, SESSION_ID, AGE>>,
      <<PARTICIPANT_ID_CAPS, SESSION_ID_CAPS, AGE>>,
      <<PARTICIPANT_ID_CAPS, PARTICIPANT_ID, AGE>>,
      <<ALIAS_SUBJECT, ALIAS_SUBJECT_ID, ALIAS_SUB, ALIAS_VISIT, ALIAS_SES>>,
      <<ALIAS_SUB_CAPS, AGE>>,
      <<COLUMN_ID, AGE>> }

\* one line of the table, cell by cell, as csv.DictReader keys it by the header
ScanLine == <<SUB01, SES_1, <<"3", "0">>, SES_01, SES_1A>>

ScanRow(fields) == [c \in {fields[i] : i \in 1..Len(fields)} |-> ScanLine[IndexOf(fields, c)]]

\* --participant-column and --session-column: the defaults, or other names
ScanArgsPool ==
    [ participant_column : {PARTICIPANT_ID, ALIAS_SUBJECT},
      session_column     : {SESSION_ID, ALIAS_VISIT},
      include_columns    : {<<AGE>>},
      strict             : {FALSE},
      skip_sub           : {None},
      skip_file          : {<<>>},
      subjects_dir       : {SUBJECTS_DIR},
      verify_long        : {FALSE},
      link_long          : {FALSE},
      no_link_long       : {FALSE},
      link_dry_run       : {FALSE},
      link_force         : {FALSE} ]

InitScan ==
    /\ fs \in ScanDirChoices
    /\ fieldnames \in ScanHeaderPool
    /\ participants_rows \in {<<>>, <<ScanRow(fieldnames)>>}
    /\ args \in ScanArgsPool
    /\ pc = "start"
    /\ timepoints = <<>>
    /\ header = <<>>
    /\ rows = <<>>
    /\ skipped_missing_sex = <<>>
    /\ error = NoError
    /\ qdec_file = NoFile
    /\ counts = NoCounts
    /\ participant_col = <<>>
    /\ session_col = <<>>
    /\ loop_raises = TRUE
    /\ env = OkEnv
    /\ started = <<>>
    /\ rc = <<>>

\* main of generate_qdec.py on these inputs
SpecScan == InitScan /\ [][Next]_vars

-----------------------------------------------------------------------------
\* the scan has run
Scanned == pc \notin {"start"}

\* a child of the subjects directory that is a directory named sub-<x> without a
\* session part
BaseOnly(f, n) == IsDir(f, n) /\ SubjectDirMatch(n).ok /\ SubjectDirMatch(n).ses = None

(* C11: every entry scan_subjects_dir returns has a session label, its fsid is
   fsid_base, an underscore and the label, and the entries are in strictly
   ascending lexicographic order of directory name. *)
C11_ScanEntries ==
    Scanned =>
        /\ \A i \in 1..Len(timepoints) :
              /\ timepoints[i].ses # None
              /\ timepoints[i].ses # <<>>
              /\ timepoints[i].fsid = timepoints[i].base \o <<"_">> \o timepoints[i].ses
              /\ timepoints[i].fsid \in DOMAIN fs
        /\ \A i, j \in 1..Len(timepoints) :
              i < j => StrLess(timepoints[i].fsid, timepoints[j].fsid)

\* a scan that returned a timepoint from a directory that also holds a base-only
\* directory
C11_Witness ==
    /\ pc = "scanned"
    /\ timepoints # <<>>
    /\ \E n \in DOMAIN fs : BaseOnly(fs, n)

-----------------------------------------------------------------------------
\* the digits of a label that is exactly ses- followed only by digits, else <<>>
SesDigits(label) ==
    IF label # None /\ StartsWith(label, SES_PREFIX)
       /\ IsDigits(SubSeq(label, Len(SES_PREFIX) + 1, Len(label)))
    THEN SubSeq(label, Len(SES_PREFIX) + 1, Len(label))
    ELSE <<>>

\* the scanned timepoints a row comes from
SourcesOf(row) == {i \in 1..Len(timepoints) : timepoints[i].fsid = row[1]}

(* C12: the tp cell of every row is the decimal rendering of the integer value of
   the digits when the session label is exactly ses- followed only by digits, and
   is n/a for every other label. *)
C12_TpCell ==
    Built =>
        \A k \in 1..Len(rows) :
            \A i \in SourcesOf(rows[k]) :
                rows[k][3] = IF SesDigits(timepoints[i].ses) # <<>>
                             THEN IntToStr(DigitsToInt(SesDigits(timepoints[i].ses)))
                             ELSE NA

-----------------------------------------------------------------------------
\* the columns of a header whose lowercased name is k
Spelled(fields, k) == {fields[i] : i \in {j \in 1..Len(fields) : Lower(fields[j]) = k}}

\* `got` is what the documentation gives for a configured column name: a column
\* of the header equal to it up to case; else a column spelled as the first alias
\* of the list, in list order, that the header has; else the name as configured
Resolved(fields, col, aliases, got) ==
    IF Spelled(fields, Lower(col)) # {} THEN got \in Spelled(fields, Lower(col))
    ELSE IF \E i \in 1..Len(aliases) : Spelled(fields, aliases[i]) # {}
    THEN \E i \in 1..Len(aliases) :
            /\ got \in Spelled(fields, aliases[i])
            /\ \A j \in 1..(i - 1) : Spelled(fields, aliases[j]) = {}
    ELSE got = col

(* C13: read_participants resolves the configured participant-id and session-id
   column names to a column of the header case-insensitively, else to the first
   alias present in the fixed order of the alias list, else leaves the name as
   configured, and never fails. *)
C13_ColumnResolution ==
    Scanned =>
        /\ Resolved(fieldnames, args.participant_column, PARTICIPANT_ALIASES, participant_col)
        /\ Resolved(fieldnames, args.session_column, SESSION_ALIASES, session_col)
        /\ pc = "scanned" => error = NoError

\* both names were resolved to an alias that is not the first alias of the header
C13_Witness ==
    /\ pc = "scanned"
    /\ participant_col = ALIAS_SUB
    /\ fieldnames[1] = ALIAS_SUBJECT
    /\ session_col = ALIAS_SES
    /\ args.session_column = SESSION_ID

-----------------------------------------------------------------------------
(* verify_and_link_long and main of prep_long.py.  Its scan_subjects_dir,
   read_participants, build_qdec_rows, write_qdec and _ensure_symlink have the
   text of the functions of generate_qdec.py and share their operators. *)

\* has_any_evidence(tp_dir): stats/aseg.stats, or one of the parcellation
\* statistics files, or surf/<hemi>.thickness
has_any_evidence(f, n) == HasStats(f, n) \/ (IsDir(f, n) /\ f[FinalName(f, n)].evidence)

\* the body of the loop of verify_and_link_long of prep_long.py
PrepLinkBody(st, a, tp, link, dry_run, force, require_stats) ==
    LET f        == st.fs
        long_dir == LongName(tp.fsid, tp.base)
    IN  IF st.raised THEN st
        ELSE IF Contains(tp.fsid, LONG_MARK)
        THEN [st EXCEPT !.counts.skipped = @ + 1]
        ELSE IF Exists(f, long_dir) /\ IsDir(f, long_dir)
        THEN [st EXCEPT !.counts.present = @ + 1]
        ELSE IF require_stats /\ ~has_any_evidence(f, tp.fsid)
        THEN [st EXCEPT !.counts.missing_stats = Append(@, tp.fsid),
                        !.counts.skipped = @ + 1]
        ELSE IF link
        THEN LET r == ensure_symlink(f, a, long_dir, tp.fsid, dry_run, force)
             IN  IF r.raised THEN [st EXCEPT !.raised = TRUE]
                 ELSE [fs |-> r.fs, counts |-> CountMessage(st.counts, r.msg), raised |-> FALSE]
        ELSE [st EXCEPT !.counts.skipped = @ + 1]

RECURSIVE PrepLinkLoop(_, _, _, _, _, _, _)
PrepLinkLoop(st, a, tps, link, dry_run, force, require_stats) ==
    IF tps = <<>> THEN st
    ELSE PrepLinkLoop(PrepLinkBody(st, a, Head(tps), link, dry_run, force, require_stats),
                      a, Tail(tps), link, dry_run, force, require_stats)

\* a reconciler that does not look at dry_run
prep_verify_and_link_long_NoDryRun(f, a, tps, link, dry_run, force, require_stats) ==
    PrepLinkLoop(LinkStart(f), a, tps, link, FALSE, force, require_stats)

prep_verify_and_link_long(f, a, tps, link, dry_run, force, require_stats) ==
    PrepLinkLoop(LinkStart(f), a, tps, link, dry_run, force, require_stats)

\* check_dependencies(args): the tools the flags ask for and shutil.which does
\* not find, in the order of the checks
check_dependencies(a, e) ==
    LET Missing(wanted, tool) == IF wanted /\ tool \notin e.path THEN <<tool>> ELSE <<>>
    IN  Missing(a.aseg /\ ~a.link_dry_run, "asegstats2table")
        \o Missing(a.aparc /\ ~a.link_dry_run, "aparcstats2table")
        \o Missing(a.surf, "mris_preproc")
        \o Missing(a.surf, "mri_surf2surf")
        \o Missing(a.qc, "run_fsqc")

\* main of prep_long.py up to the scan: the dependency check (return 1), the
\* existence checks (return 2), read_participants(...), scan_subjects_dir(subj_dir)
PrepScan ==
    /\ pc = "prep_start"
    /\ IF check_dependencies(args, env) # <<>>
       THEN /\ rc' = <<1>>
            /\ pc' = "prep_exit"
            /\ UNCHANGED <<participant_col, session_col, timepoints>>
       ELSE IF ExistenceChecks(env) # 0
       THEN /\ rc' = <<ExistenceChecks(env)>>
            /\ pc' = "prep_exit"
            /\ UNCHANGED <<participant_col, session_col, timepoints>>
       ELSE /\ participant_col' = read_participants(fieldnames, args).participant_col
            /\ session_col' = read_participants(fieldnames, args).session_col
            /\ timepoints' = scan_subjects_dir(fs)
            /\ pc' = "prep_scanned"
            /\ UNCHANGED rc
    /\ UNCHANGED <<fs, loop_raises, fieldnames, participants_rows, args, header, rows,
                   skipped_missing_sex, error, qdec_file, counts, env, started>>

\* header, rows = build_qdec_rows(..., skip_set=skip_set or None)
PrepBuild ==
    /\ pc = "prep_scanned"
    /\ \E cols \in ColsToInclude(participants_rows, participant_col, session_col,
                                 args.include_columns) :
          LET res == build_qdec_rows(timepoints, participants_rows, participant_col,
                                     session_col, cols, args.strict, SkipArg(args))
          IN  IF res.raised # NoError
              THEN /\ error' = res.raised
                   /\ pc' = "prep_crashed"
                   /\ rc' = <<1>>
                   /\ UNCHANGED <<header, rows, skipped_missing_sex>>
              ELSE /\ header' = res.header
                   /\ rows' = res.rows
                   /\ skipped_missing_sex' = res.skipped
                   /\ pc' = "prep_built"
                   /\ UNCHANGED <<error, rc>>
    /\ UNCHANGED <<fs, loop_raises, fieldnames, participants_rows, args, timepoints,
                   qdec_file, counts, participant_col, session_col, env, started>>

\* write_qdec(out_path, header, rows)
PrepWrite ==
    /\ pc = "prep_built"
    /\ qdec_file' = [written |-> TRUE, header |-> header, rows |-> rows,
                     text |-> write_qdec(header, rows)]
    /\ pc' = "prep_written"
    /\ UNCHANGED <<fs, loop_raises, fieldnames, participants_rows, args, timepoints,
                   header, rows, skipped_missing_sex, error, counts, participant_col,
                   session_col, env, started, rc>>

\* if args.verify_long or args.link_long: verify_and_link_long(subj_dir,
\* timepoints, link=args.link_long, dry_run=args.link_dry_run,
\* force=args.link_force); an exception is not caught and ends main
PrepReconcile ==
    /\ pc = "prep_written"
    /\ LET out == prep_verify_and_link_long(fs, args, timepoints, args.link_long,
                                            args.link_dry_run, args.link_force, TRUE)
       IN  IF args.verify_long \/ args.link_long
           THEN /\ fs' = out.fs
                /\ IF out.raised
                   THEN /\ error' = LoopError /\ pc' = "prep_crashed" /\ rc' = <<1>>
                        /\ UNCHANGED counts
                   ELSE /\ counts' = out.counts /\ pc' = "prep_reconciled"
                        /\ UNCHANGED <<error, rc>>
           ELSE pc' = "prep_reconciled" /\ UNCHANGED <<fs, counts, error, rc>>
    /\ UNCHANGED <<loop_raises, fieldnames, participants_rows, args, timepoints, header,
                   rows, skipped_missing_sex, qdec_file, participant_col, session_col,
                   env, started>>

\* what a wrapper of an external tool did: the tools it executed, in order, and
\* the code it returns
Ran(tools, code) == [started |-> tools, rc |-> code]

\* run_asegstats2table: 4 without the binary; subprocess.run(cmd, check=True)
\* and, on CalledProcessError, exc.returncode or 5
run_asegstats2table(e) ==
    IF "asegstats2table" \notin e.path THEN Ran(<<>>, 4)
    ELSE Ran(<<"asegstats2table">>, e.aseg_exit)

\* a loop that runs every invocation and returns the last exit code
AparcLoop_RunsAll(exits) ==
    Ran([i \in 1..Len(exits) |-> "aparcstats2table"],
        IF exits = <<>> THEN 0 ELSE exits[Len(exits)])

\* the loop of run_aparcstats2table over hemispheres and measures: it returns
\* on the first invocation that fails
RECURSIVE AparcLoop(_)
AparcLoop(exits) ==
    IF exits = <<>> THEN Ran(<<>>, 0)
    ELSE IF Head(exits) # 0 THEN Ran(<<"aparcstats2table">>, Head(exits))
    ELSE LET rest == AparcLoop(Tail(exits))
         IN  Ran(<<"aparcstats2table">> \o rest.started, rest.rc)

\* run_aparcstats2table: 6 without the binary; 0 with a warning when the
\* preflight finds no stats file of any parcellation; else the loop
run_aparcstats2table(e) ==
    IF "aparcstats2table" \notin e.path THEN Ran(<<>>, 6)
    ELSE IF ~e.aparc_stats THEN Ran(<<>>, 0)
    ELSE AparcLoop(e.aparc_exit)

\* if args.aseg: skipped under --link-dry-run and (with a warning) without the
\* binary; else rc = run_asegstats2table(...); if rc != 0: return rc
PrepAseg ==
    /\ pc = "prep_reconciled"
    /\ IF args.aseg /\ ~args.link_dry_run /\ "asegstats2table" \in env.path
       THEN LET out == run_asegstats2table(env)
            IN  /\ started' = started \o out.started
                /\ IF out.rc # 0
                   THEN pc' = "prep_exit" /\ rc' = <<out.rc>>
                   ELSE pc' = "prep_aseg" /\ UNCHANGED rc
       ELSE pc' = "prep_aseg" /\ UNCHANGED <<started, rc>>
    /\ UNCHANGED <<fs, loop_raises, fieldnames, participants_rows, args, timepoints,
                   header, rows, skipped_missing_sex, error, qdec_file, counts,
                   participant_col, session_col, env>>

\* if args.aparc: the same with run_aparcstats2table(...)
PrepAparc ==
    /\ pc = "prep_aseg"
    /\ IF args.aparc /\ ~args.link_dry_run /\ "aparcstats2table" \in env.path
       THEN LET out == run_aparcstats2table(env)
            IN  /\ started' = started \o out.started
                /\ IF out.rc # 0
                   THEN pc' = "prep_exit" /\ rc' = <<out.rc>>
                   ELSE pc' = "prep_aparc" /\ UNCHANGED rc
       ELSE pc' = "prep_aparc" /\ UNCHANGED <<started, rc>>
    /\ UNCHANGED <<fs, loop_raises, fieldnames, participants_rows, args, timepoints,
                   header, rows, skipped_missing_sex, error, qdec_file, counts,
                   participant_col, session_col, env>>

\* run_surf_mass_univariate(..., dry_run) for one hemisphere, one measure and one
\* smoothing kernel: 8 without the binaries, 0 without the target directory;
\* unless dry_run it scans again and links with link=True, dry_run=False,
\* force=False, require_stats=False (an exception is caught and leaves the links
\* made before it); a pair none of whose rows has its surface file is skipped;
\* unless dry_run it runs mris_preproc, then mri_surf2surf, and returns the exit
\* code of the first that fails
run_surf_mass_univariate(f, a, e, file, dry_run) ==
    LET linked == IF dry_run THEN f
                  ELSE prep_verify_and_link_long(f, a, scan_subjects_dir(f),
                                                 TRUE, FALSE, FALSE, FALSE).fs
    IN  IF "mris_preproc" \notin e.path \/ "mri_surf2surf" \notin e.path
        THEN [fs |-> f, started |-> <<>>, rc |-> 8]
        ELSE IF ~IsDir(f, FSAVERAGE)
        THEN [fs |-> f, started |-> <<>>, rc |-> 0]
        ELSE IF file.rows = <<>> \/ ~e.surf_files \/ dry_run
        THEN [fs |-> linked, started |-> <<>>, rc |-> 0]
        ELSE IF e.mris_exit # 0
        THEN [fs |-> linked, started |-> <<"mris_preproc">>, rc |-> e.mris_exit]
        ELSE [fs |-> linked, started |-> <<"mris_preproc", "mri_surf2surf">>,
              rc |-> e.surf2surf_exit]

\* if args.surf: skipped with a warning without the binaries; else
\* rc = run_surf_mass_univariate(..., dry_run=bool(args.link_dry_run)), and rc is
\* not looked at.  counts keeps the summary of main's own reconciliation
PrepSurf ==
    /\ pc = "prep_aparc"
    /\ IF args.surf /\ "mris_preproc" \in env.path /\ "mri_surf2surf" \in env.path
       THEN LET out == run_surf_mass_univariate(fs, args, env, qdec_file,
                                                args.link_dry_run)
            IN  /\ fs' = out.fs
                /\ started' = started \o out.started
       ELSE UNCHANGED <<fs, started>>
    /\ pc' = "prep_surf"
    /\ UNCHANGED <<loop_raises, fieldnames, participants_rows, args, timepoints, header,
                   rows, skipped_missing_sex, error, qdec_file, counts, participant_col,
                   session_col, env, rc>>

\* run_fsqc: 0 with a warning without run_fsqc or without a subject in the Qdec
\* file; else subprocess.run(cmd, check=True), and 0 with a warning when it fails
run_fsqc(e, file) ==
    IF "run_fsqc" \notin e.path \/ file.rows = <<>> THEN Ran(<<>>, 0)
    ELSE Ran(<<"run_fsqc">>, 0)

\* if args.qc: _ = run_fsqc(...); return 0
PrepQc ==
    /\ pc = "prep_surf"
    /\ started' = IF args.qc THEN started \o run_fsqc(env, qdec_file).started
                  ELSE started
    /\ pc' = "prep_done"
    /\ rc' = <<0>>
    /\ UNCHANGED <<fs, loop_raises, fieldnames, participants_rows, args, timepoints,
                   header, rows, skipped_missing_sex, error, qdec_file, counts,
                   participant_col, session_col, env>>

-----------------------------------------------------------------------------
(* Inputs that exercise the reconciler: both programs, every combination of the
   link flags, and subjects directories whose <fsid>.long.<base> paths are
   missing, real directories, files, or symlinks of every kind *)

\* a regular file of the subjects directory
NOTES == <<"n", "o", "t", "e", "s">>

\* --subjects-dir given as a relative path
SUBJECTS_DIR_REL == <<"d">>

\* --subjects-dir given as an absolute path whose text holds "created"
SUBJECTS_DIR_CREATED == <<"/", "c", "r", "e", "a", "t", "e", "d">>

T1 == TpName(SUB01, SES_1)

T2 == TpName(SUB01, SES_3)

T3 == TpName(SUB02, SES_3)

L1 == LongName(T1, SUB01)

L2 == LongName(T2, SUB01)

\* a directory as a set of (name, entry) pairs
Entries(pairs) == [n \in {p[1] : p \in pairs} |-> (CHOOSE p \in pairs : p[1] = n)[2]]

\* the first timepoint, processed, with its .long. path in every state; or
\* without stats/aseg.stats, with and without other evidence
FirstPool ==
    { {<<T1, DirEntry(TRUE)>>},
      {<<T1, DirEntry(TRUE)>>, <<L1, DirEntry(TRUE)>>},
      {<<T1, DirEntry(TRUE)>>, <<L1, FileEntry>>},
      {<<T1, DirEntry(TRUE)>>, <<L1, LinkEntry("subjects_dir", T1)>>},
      {<<T1, DirEntry(TRUE)>>, <<L1, LinkEntry("subjects_dir", T2)>>},
      {<<T1, DirEntry(TRUE)>>, <<L1, LinkEntry("subjects_dir", NOTES)>>, <<NOTES, FileEntry>>},
      {<<T1, DirEntry(TRUE)>>, <<L1, LinkEntry("subjects_dir", L1)>>},
      {<<T1, DirEntry(TRUE)>>, <<L1, LinkEntry("nested", T1)>>},
      {<<T1, DirEntry(FALSE)>>},
      {<<T1, DirEntry(FALSE)>>, <<L1, LinkEntry("subjects_dir", T2)>>},
      {<<T1, SurfOnlyEntry>>},
      {<<T1, SurfOnlyEntry>>, <<L1, LinkEntry("subjects_dir", T2)>>} }

\* the second timepoint of the same subject: absent, or present with its .long.
\* path missing, correct, or leading through the .long. path of the first
SecondPool ==
    { {},
      {<<T2, DirEntry(TRUE)>>},
      {<<T2, DirEntry(TRUE)>>, <<L2, LinkEntry("subjects_dir", T2)>>},
      {<<T2, DirEntry(TRUE)>>, <<L2, LinkEntry("subjects_dir", L1)>>},
      {<<T2, DirEntry(FALSE)>>} }

\* a timepoint of another subject, in directories of more than two timepoints
ThirdPool == IF MaxDirs > 2 THEN { {}, {<<T3, DirEntry(TRUE)>>} } ELSE { {} }

\* the surface target of --surf: subjects_dir/fsaverage
TargetDir == {<<FSAVERAGE, DirEntry(FALSE)>>}

LinkDirChoices ==
    { Entries(a \cup b \cup c \cup TargetDir) :
        a \in FirstPool, b \in SecondPool, c \in ThirdPool }

\* the command lines: generate_qdec.py has --no-link-long, prep_long.py has --surf
LinkArgsPool ==
    { a \in [ participant_column : {PARTICIPANT_ID},
              session_column     : {SESSION_ID},
              include_columns    : {<<>>},
              strict             : {FALSE},
              skip_sub           : {None},
              skip_file          : {<<>>},
              subjects_dir       : {SUBJECTS_DIR, SUBJECTS_DIR_REL, SUBJECTS_DIR_CREATED},
              verify_long        : BOOLEAN,
              link_long          : BOOLEAN,
              no_link_long       : BOOLEAN,
              link_dry_run       : BOOLEAN,
              link_force         : BOOLEAN,
              aseg               : {FALSE},
              aparc              : {FALSE},
              surf               : BOOLEAN,
              qc                 : {FALSE} ] : ~(a.no_link_long /\ a.surf) }

InitLink ==
    /\ fs \in LinkDirChoices
    /\ fieldnames = <<PARTICIPANT_ID, AGE, SEX>>
    /\ participants_rows = <<>>
    /\ args \in LinkArgsPool
    /\ \/ pc = "start" /\ ~args.surf
       \/ pc = "prep_start" /\ ~args.no_link_long
    /\ timepoints = <<>>
    /\ header = <<>>
    /\ rows = <<>>
    /\ skipped_missing_sex = <<>>
    /\ error = NoError
    /\ qdec_file = NoFile
    /\ counts = NoCounts
    /\ participant_col = <<>>
    /\ session_col = <<>>
    /\ loop_raises \in BOOLEAN
    /\ env = OkEnv
    /\ started = <<>>
    /\ rc = <<>>

NextLink ==
    \/ Scan \/ Build \/ Write \/ Reconcile \/ Rerun
    \/ PrepScan \/ PrepBuild \/ PrepWrite \/ PrepReconcile
    \/ PrepAseg \/ PrepAparc \/ PrepSurf \/ PrepQc

\* main of generate_qdec.py and main of prep_long.py on these inputs
SpecLink == InitLink /\ [][NextLink]_vars

-----------------------------------------------------------------------------
(* The reconciler: when links are made *)

\* the symlinks of a directory with the targets they hold
Symlinks(f) == [n \in {k \in DOMAIN f : f[k].kind = "symlink"} |-> f[n].target]

\* C14 as stated: without --link-long no step of a run of generate_qdec.py or
\* prep_long.py changes the set of symlinks of the subjects directory.
C14_OnlyOnRequest ==
    [][~args.link_long => Symlinks(fs') = Symlinks(fs)]_vars

\* C14: a step of a run changes the symlinks of the subjects directory only when
\* it is the reconciliation of generate_qdec.py with --link-long given or, with
\* --no-link-long absent, more than one scanned session for some subject; or the
\* reconciliation of prep_long.py with --link-long given; or the surface step of
\* prep_long.py.
C14_OnRequestOrAutomatic ==
    [][Symlinks(fs') # Symlinks(fs) =>
          \/ /\ pc = "written"
             /\ \/ args.link_long
                \/ ~args.no_link_long /\ has_multiple_sessions(timepoints)
          \/ pc = "prep_written" /\ args.link_long
          \/ pc = "prep_aparc" /\ args.surf]_vars

\* a run of generate_qdec.py without --link-long has made a link
C14_Witness ==
    /\ pc = "done"
    /\ ~args.link_long
    /\ ~args.link_dry_run
    /\ args.subjects_dir = SUBJECTS_DIR
    /\ counts.created > 0
    /\ IsSymlink(fs, L1)

-----------------------------------------------------------------------------
(* The reconciler: evidence of completed processing *)

\* the directory of a timepoint holds none of stats/aseg.stats,
\* stats/<hemi>.<parc>.stats, surf/<hemi>.thickness
NoEvidence(f, n) ==
    /\ IsDir(f, n)
    /\ ~f[FinalName(f, n)].stats
    /\ ~f[FinalName(f, n)].evidence

\* a step makes a symlink of a path that was none
Created(f, g, link) == IsSymlink(g, link) /\ ~IsSymlink(f, link)

\* no step makes the .long. symlink of the timepoint when its directory shows no
\* evidence
NotCreatedWithoutEvidence(tp) ==
    NoEvidence(fs, tp.fsid) => ~Created(fs, fs', LongName(tp.fsid, tp.base))

\* the counts reported after the step record the timepoint as missing evidence
\* when its directory shows none and its .long. path is not a directory
RecordedMissing(tp) ==
    (NoEvidence(fs, tp.fsid) /\ counts'.ran /\ ~IsDir(fs', LongName(tp.fsid, tp.base)))
        => (InSeq(counts'.missing_stats, tp.fsid)
            /\ counts'.skipped >= Len(counts'.missing_stats))

\* C15 as stated: no step of a run makes the <fsid>.long.<base> symlink of a
\* timepoint whose directory shows no evidence of completed processing.
C15_NeverWithoutEvidence ==
    [][(\A tp \in {scan_subjects_dir(fs)[i] : i \in 1..Len(scan_subjects_dir(fs))} :
           NotCreatedWithoutEvidence(tp))]_vars

\* C15: the reconciliation that main performs (generate_qdec.py, and prep_long.py
\* under --verify-long or --link-long) never makes the <fsid>.long.<base> symlink
\* of a timepoint whose directory shows no evidence of completed processing, and
\* when it reports its counts it has recorded every such timepoint whose .long.
\* path is not a directory as missing evidence and counted it as skipped.
C15_MainRequiresEvidence ==
    [][(pc = "written" \/ pc = "prep_written") =>
          (\A tp \in {timepoints[i] : i \in 1..Len(timepoints)} :
              NotCreatedWithoutEvidence(tp) /\ RecordedMissing(tp))]_vars

\* the reconciliation of prep_long.py main, linking for real, has left a
\* timepoint without evidence unlinked and recorded it
C15_Witness ==
    /\ pc = "prep_reconciled"
    /\ args.link_long
    /\ ~args.link_dry_run
    /\ NoEvidence(fs, T1)
    /\ ~Exists(fs, L1)
    /\ InSeq(counts.missing_stats, T1)
    /\ counts.created > 0

-----------------------------------------------------------------------------
(* The reconciler: what it leaves alone *)

\* the <fsid>.long.<base> paths of a directory that are not symlinks
RealLongPaths(f) == {n \in DOMAIN f : Contains(n, LONG_MARK) /\ f[n].kind # "symlink"}

\* C16: no step of a run, under any combination of the link, force and dry-run
\* flags, removes, replaces or modifies a <fsid>.long.<base> path that exists as
\* a real directory or a regular file.
C16_RealPathsUntouched ==
    [][(\A n \in RealLongPaths(fs) : n \in DOMAIN fs' /\ fs'[n] = fs[n])]_vars

\* a reconciliation that links for real with force has met a regular file at the
\* .long. path of a processed timepoint and has passed it by
C16_Witness ==
    /\ pc \in {"done", "prep_reconciled"}
    /\ args.link_long
    /\ args.link_force
    /\ ~args.link_dry_run
    /\ HasStats(fs, T1)
    /\ L1 \in RealLongPaths(fs)
    /\ fs[L1].kind = "file"
    /\ counts.skipped > 0

-----------------------------------------------------------------------------
(* The reconciler: dry runs *)

\* what a call of _ensure_symlink returns and raises
Report(r) == <<r.changed, r.msg, r.raised>>

\* what verify_and_link_long reports: its counts, or the exception
Summary(out) == <<out.counts, out.raised>>

\* C17: on the directory and timepoints of any run about to reconcile, for every
\* link and force flag, _ensure_symlink and verify_and_link_long with dry-run set
\* leave the directory as it is and report what they report with dry-run unset.
C17_DryRunSameReport ==
    (pc = "written" \/ pc = "prep_written") =>
        \A link \in BOOLEAN, force \in BOOLEAN :
           /\ \A tp \in {timepoints[i] : i \in 1..Len(timepoints)} :
                 LET long_dir == LongName(tp.fsid, tp.base)
                 IN  /\ ensure_symlink(fs, args, long_dir, tp.fsid, TRUE, force).fs = fs
                     /\ Report(ensure_symlink(fs, args, long_dir, tp.fsid, TRUE, force))
                           = Report(ensure_symlink(fs, args, long_dir, tp.fsid, FALSE, force))
           /\ verify_and_link_long(fs, args, timepoints, link, TRUE, force).fs = fs
           /\ Summary(verify_and_link_long(fs, args, timepoints, link, TRUE, force))
                 = Summary(verify_and_link_long(fs, args, timepoints, link, FALSE, force))
           /\ prep_verify_and_link_long(fs, args, timepoints, link, TRUE, force, TRUE).fs = fs
           /\ Summary(prep_verify_and_link_long(fs, args, timepoints, link, TRUE, force, TRUE))
                 = Summary(prep_verify_and_link_long(fs, args, timepoints, link, FALSE, force, TRUE))

-----------------------------------------------------------------------------
(* The reconciler: links that point elsewhere *)

\* the .long. path of the timepoint is a symlink whose target resolves, and to
\* something other than the directory of the timepoint: another directory, a
\* file, or a path that does not exist
PointsElsewhere(f, tp) ==
    LET link == LongName(tp.fsid, tp.base)
    IN  /\ IsSymlink(f, link)
        /\ Resolve(f, link).via # "loop"
        /\ Resolve(f, link) # Resolve(f, tp.fsid)

Elsewhere(f, tps) == {i \in 1..Len(tps) : PointsElsewhere(f, tps[i])}

\* the run reconciles with linking on and force off
LinkingWithoutForce ==
    /\ ~args.link_force
    /\ \/ pc = "written" /\ EnableLinking(args, timepoints)
       \/ pc = "prep_written" /\ args.link_long

\* C18: a reconciliation with linking on and force off leaves every .long.
\* symlink that points elsewhere as it is, and its counts have each such
\* timepoint under skipped: of the timepoints, no more than the others are
\* counted as present, created or updated.
C18_ElsewhereSkipped ==
    [][LinkingWithoutForce =>
          (/\ \A i \in Elsewhere(fs, timepoints) :
                 LET link == LongName(timepoints[i].fsid, timepoints[i].base)
                 IN  link \in DOMAIN fs' /\ fs'[link] = fs[link]
           /\ counts'.ran =>
                 (/\ counts'.skipped >= Cardinality(Elsewhere(fs, timepoints))
                  /\ counts'.present + counts'.created + counts'.updated
                        <= Len(timepoints) - Cardinality(Elsewhere(fs, timepoints))))]_vars

-----------------------------------------------------------------------------
(* The reconciler: running it again *)

\* a reconciliation with linking on and dry-run off has reported its counts
LinkedForReal ==
    /\ counts.ran
    /\ ~args.link_dry_run
    /\ \/ pc = "done" /\ EnableLinking(args, timepoints)
       \/ pc = "prep_reconciled" /\ args.link_long

\* C19: after a reconciliation with linking on and dry-run off, the same
\* reconciliation run again on the directory it left changes nothing and counts
\* no link as created and none as updated.
C19_Idempotent ==
    LinkedForReal =>
        /\ LET again == verify_and_link_long(fs, args, scan_subjects_dir(fs), TRUE, FALSE,
                                             args.link_force)
           IN  pc = "done" =>
                  again.fs = fs /\ again.counts.created = 0 /\ again.counts.updated = 0
        /\ LET again == prep_verify_and_link_long(fs, args, scan_subjects_dir(fs), TRUE, FALSE,
                                                  args.link_force, TRUE)
           IN  pc = "prep_reconciled" =>
                  again.fs = fs /\ again.counts.created = 0 /\ again.counts.updated = 0

-----------------------------------------------------------------------------
(* The reconciler: errors of Path.resolve() *)

\* C20: no call of _ensure_symlink on a timepoint of a run about to reconcile
\* raises the error of resolving the link, and no run is ended by that error.
C20_ResolutionErrorsHandled ==
    /\ error.type # LoopError.type
    /\ (pc = "written" \/ pc = "prep_written") =>
          \A tp \in {timepoints[i] : i \in 1..Len(timepoints)} :
             \A dry_run \in BOOLEAN, force \in BOOLEAN :
                ~ensure_symlink(fs, args, LongName(tp.fsid, tp.base), tp.fsid,
                                dry_run, force).raised

-----------------------------------------------------------------------------
(* main of generate_qdec.py: when the reconciliation links *)

\* some subject has more than one scanned session
SomeSubjectTwice(tps) ==
    \E i \in 1..Len(tps) : \E j \in 1..Len(tps) :
        tps[i].fsid # tps[j].fsid /\ tps[i].base = tps[j].base

\* --link-long given, or --no-link-long absent and some subject scanned twice
LinkingExpected ==
    args.link_long \/ (~args.no_link_long /\ SomeSubjectTwice(timepoints))

\* C28: the reconciliation step of generate_qdec.py main does what
\* verify_and_link_long does with linking on exactly when --link-long is given,
\* or --no-link-long is absent and some subject has more than one scanned
\* session (and does not run at all without that and without --verify-long);
\* with --no-link-long given and --link-long absent it leaves the symlinks of the
\* subjects directory as they are.
C28_LinkingDecision ==
    [][pc = "written" =>
          LET out == verify_and_link_long(fs, args, timepoints, LinkingExpected,
                                          args.link_dry_run, args.link_force)
          IN  /\ (args.verify_long \/ LinkingExpected) =>
                    (fs' = out.fs /\ (~out.raised => counts' = out.counts))
              /\ ~(args.verify_long \/ LinkingExpected) => (fs' = fs /\ ~counts'.ran)
              /\ (args.no_link_long /\ ~args.link_long) => Symlinks(fs') = Symlinks(fs)]_vars

\* a run with --no-link-long and --verify-long on two processed sessions of one
\* subject has reconciled and made no link
C28_Witness ==
    /\ pc = "done"
    /\ args.no_link_long
    /\ ~args.link_long
    /\ ~args.link_dry_run
    /\ HasStats(fs, T1)
    /\ HasStats(fs, T2)
    /\ counts.ran
    /\ counts.skipped = 2
    /\ L1 \notin DOMAIN fs
    /\ L2 \notin DOMAIN fs

-----------------------------------------------------------------------------
(* The reconciler: force *)

\* the run reconciles with linking on, force on and dry-run off
LinkingWithForce ==
    /\ args.link_force
    /\ ~args.link_dry_run
    /\ \/ pc = "written" /\ EnableLinking(args, timepoints)
       \/ pc = "prep_written" /\ args.link_long

\* the .long. path of the timepoint is a symlink that leads to the directory of
\* the timepoint
LinksOwnDirectory(f, tp) ==
    /\ IsSymlink(f, LongName(tp.fsid, tp.base))
    /\ Resolve(f, LongName(tp.fsid, tp.base)) = [via |-> "subjects_dir", name |-> tp.fsid]

\* C25: when a reconciliation with linking on, force on and dry-run off returns,
\* every processed timepoint whose .long. path was a symlink to a different
\* target has a .long. symlink to its own directory.
C25_ForceRepairs ==
    [][(LinkingWithForce /\ counts'.ran) =>
          (\A i \in Elsewhere(fs, timepoints) :
              HasStats(fs, timepoints[i].fsid) => LinksOwnDirectory(fs', timepoints[i]))]_vars

-----------------------------------------------------------------------------
(* _ensure_symlink: the link it makes *)

\* C26: on the directory of any run about to reconcile, a call of
\* _ensure_symlink with dry-run off that creates or updates the .long. link of a
\* timepoint leaves a link that resolves to the directory of the timepoint, and
\* the same call made again returns unchanged with "exists (correct symlink)".
C26_LinkResolves ==
    (pc = "written" \/ pc = "prep_written") =>
        \A tp \in {timepoints[i] : i \in 1..Len(timepoints)} : \A force \in BOOLEAN :
           LET link  == LongName(tp.fsid, tp.base)
               first == ensure_symlink(fs, args, link, tp.fsid, FALSE, force)
               again == ensure_symlink(first.fs, args, link, tp.fsid, FALSE, force)
           IN  (first.changed /\ ~first.raised) =>
                  /\ Resolve(first.fs, link) = Resolve(first.fs, tp.fsid)
                  /\ ~again.changed
                  /\ again.msg = LinkMessage(MSG_CORRECT, args, link, tp.fsid)

-----------------------------------------------------------------------------
(* The two copies of the reconciler *)

\* C30: on the directory and timepoints of any run about to reconcile, for every
\* link, dry-run and force flag, verify_and_link_long of generate_qdec.py and
\* verify_and_link_long of prep_long.py with require_stats left at its default
\* give the same counts and missing-evidence list and leave the same directory.
C30_CopiesAgree ==
    (pc = "written" \/ pc = "prep_written") =>
        \A link \in BOOLEAN, dry_run \in BOOLEAN, force \in BOOLEAN :
           verify_and_link_long(fs, args, timepoints, link, dry_run, force)
              = prep_verify_and_link_long(fs, args, timepoints, link, dry_run, force, TRUE)

-----------------------------------------------------------------------------
(* build_qdec_rows: where each timepoint goes *)

\* the scanned timepoints the skip-set excludes
SkippedBySet == {i \in 1..Len(timepoints) : timepoints[i].base \in build_skip_set(args)}

\* the rows emitted for an fsid
RowsWithFsid(fsid) == {k \in 1..Len(rows) : rows[k][1] = fsid}

\* the entries of the sex-gate list for an fsid
DropsOfFsid(fsid) == {k \in 1..Len(skipped_missing_sex) : skipped_missing_sex[k] = fsid}

\* C27: after a non-strict build every scanned timepoint is in exactly one of
\* three classes (excluded by the skip-set, dropped by the sex gate, emitted as
\* exactly one row), every row belongs to a scanned fsid, no fsid has two rows,
\* and rows + skipped + sex-dropped is the number of scanned timepoints.
C27_Partition ==
    (Built /\ ~args.strict) =>
        /\ \A i \in 1..Len(timepoints) :
              LET fsid == timepoints[i].fsid
              IN  IF i \in SkippedBySet
                  THEN RowsWithFsid(fsid) = {} /\ DropsOfFsid(fsid) = {}
                  ELSE Cardinality(RowsWithFsid(fsid)) + Cardinality(DropsOfFsid(fsid)) = 1
        /\ \A k \in 1..Len(rows) : \E i \in 1..Len(timepoints) : timepoints[i].fsid = rows[k][1]
        /\ \A k \in 1..Len(rows) : Cardinality(RowsWithFsid(rows[k][1])) = 1
        /\ Len(rows) + Cardinality(SkippedBySet) + Len(skipped_missing_sex) = Len(timepoints)

\* a non-strict build of two scanned timepoints has emitted one and dropped the
\* other at the sex gate
C27_Witness ==
    /\ Built
    /\ ~args.strict
    /\ Len(timepoints) = 2
    /\ Len(rows) = 1
    /\ Len(skipped_missing_sex) = 1
    /\ SkippedBySet = {}

-----------------------------------------------------------------------------
(* Inputs that exercise the steps of main around the table: inputs that are
   missing, tools that are missing from PATH, tools that fail, and the flags
   that choose the steps *)

\* what an environment can lack, and the tools that can exit with an error
Faults ==
    { "no_participants", "no_subjects_dir", "subjects_dir_is_file",
      "no_asegstats2table", "no_aparcstats2table", "no_mris_preproc",
      "no_mri_surf2surf", "no_run_fsqc",
      "asegstats2table_fails", "aparcstats2table_fails_first",
      "aparcstats2table_fails_second", "mris_preproc_fails", "mri_surf2surf_fails",
      "run_fsqc_fails", "no_aparc_stats", "no_surf_files" }

\* the environment with these faults; each failing invocation has its own exit code
EnvOf(faults) ==
    [ participants   |-> "no_participants" \notin faults,
      subjects_dir   |-> IF "no_subjects_dir" \in faults THEN "missing"
                         ELSE IF "subjects_dir_is_file" \in faults THEN "file"
                         ELSE "dir",
      path           |-> { t \in TOOLS : ("no_" \o t) \notin faults },
      aseg_exit      |-> IF "asegstats2table_fails" \in faults THEN 1 ELSE 0,
      aparc_exit     |-> << IF "aparcstats2table_fails_first" \in faults THEN 2 ELSE 0,
                            IF "aparcstats2table_fails_second" \in faults THEN 3 ELSE 0 >>,
      mris_exit      |-> IF "mris_preproc_fails" \in faults THEN 11 ELSE 0,
      surf2surf_exit |-> IF "mri_surf2surf_fails" \in faults THEN 12 ELSE 0,
      fsqc_exit      |-> IF "run_fsqc_fails" \in faults THEN 13 ELSE 0,
      aparc_stats    |-> "no_aparc_stats" \notin faults,
      surf_files     |-> "no_surf_files" \notin faults ]

\* no fault, one fault, or two
EnvPool == { EnvOf({}) } \cup { EnvOf({x, y}) : x, y \in Faults }

\* the inputs only: what main of generate_qdec.py looks at
InputEnvPool ==
    { EnvOf({}), EnvOf({"no_participants"}), EnvOf({"no_subjects_dir"}),
      EnvOf({"subjects_dir_is_file"}), EnvOf({"no_participants", "no_subjects_dir"}) }

\* subjects directories: without a timepoint, with one timepoint that has no
\* .long. path yet, with one whose .long. path is a link to another directory,
\* and one without the surface target
PipeDirChoices ==
    { Entries(TargetDir),
      Entries({<<T1, DirEntry(TRUE)>>} \cup TargetDir),
      Entries({<<T1, DirEntry(TRUE)>>, <<L1, LinkEntry("subjects_dir", T2)>>}
              \cup TargetDir),
      Entries({<<T1, DirEntry(TRUE)>>}) }

\* a subjects directory that is missing or is a file has nothing in it
NoDir == Entries({})

PipeArgsPool ==
    [ participant_column : {PARTICIPANT_ID},
      session_column     : {SESSION_ID},
      include_columns    : {<<>>},
      strict             : {FALSE},
      skip_sub           : {None},
      skip_file          : {<<>>},
      subjects_dir       : {SUBJECTS_DIR},
      verify_long        : BOOLEAN,
      link_long          : BOOLEAN,
      no_link_long       : {FALSE},
      link_dry_run       : BOOLEAN,
      link_force         : BOOLEAN,
      aseg               : BOOLEAN,
      aparc              : BOOLEAN,
      surf               : BOOLEAN,
      qc                 : BOOLEAN ]

InitPipe ==
    /\ args \in PipeArgsPool
    /\ \/ /\ pc = "start"
          /\ ~(args.aseg \/ args.aparc \/ args.surf \/ args.qc)
          /\ env \in InputEnvPool
       \/ /\ pc = "prep_start"
          /\ env \in EnvPool
    /\ fs \in IF env.subjects_dir = "dir" THEN PipeDirChoices ELSE {NoDir}
    /\ fieldnames = <<PARTICIPANT_ID, AGE, SEX>>
    /\ participants_rows = <<>>
    /\ timepoints = <<>>
    /\ header = <<>>
    /\ rows = <<>>
    /\ skipped_missing_sex = <<>>
    /\ error = NoError
    /\ qdec_file = NoFile
    /\ counts = NoCounts
    /\ participant_col = <<>>
    /\ session_col = <<>>
    /\ loop_raises = TRUE
    /\ started = <<>>
    /\ rc = <<>>

NextPipe ==
    \/ Scan \/ Build \/ Write \/ Reconcile
    \/ PrepScan \/ PrepBuild \/ PrepWrite \/ PrepReconcile
    \/ PrepAseg \/ PrepAparc \/ PrepSurf \/ PrepQc

\* main of generate_qdec.py and main of prep_long.py in these environments
SpecPipe == InitPipe /\ [][NextPipe]_vars

-----------------------------------------------------------------------------
(* Missing inputs *)

\* the participants file does not exist, or the subjects directory does not
\* exist or is not a directory
InputsMissing == ~env.participants \/ env.subjects_dir # "dir"

\* C23: if the participants file does not exist, or the subjects directory does
\* not exist or is not a directory, the only step main of generate_qdec.py and
\* main of prep_long.py take is to return a nonzero exit code: nothing is
\* scanned, no Qdec file is written and the subjects directory is left as it was
C23_MissingInputsRefused ==
    [][InputsMissing =>
         (/\ pc' \in {"exit", "prep_exit"}
          /\ rc' # <<>> /\ rc'[1] # 0
          /\ timepoints' = <<>>
          /\ ~qdec_file'.written
          /\ fs' = fs)]_vars

\* a run of generate_qdec.py on a subjects directory that is a file has ended
\* with exit code 2
C23_Witness ==
    /\ pc = "exit"
    /\ env.participants /\ env.subjects_dir = "file"
    /\ rc = <<2>>

-----------------------------------------------------------------------------
(* The external steps of prep_long.py *)

\* the place of a tool in the order of the steps
StepRank(tool) ==
    CASE tool = "asegstats2table"  -> 1
      [] tool = "aparcstats2table" -> 2
      [] tool = "mris_preproc"     -> 3
      [] tool = "mri_surf2surf"    -> 4
      [] tool = "run_fsqc"         -> 5

\* how often a tool was executed
TimesStarted(tool) == Cardinality({ i \in DOMAIN started : started[i] = tool })

\* the invocations of aparcstats2table executed so far that exited nonzero
AparcFailures ==
    { k \in 1..TimesStarted("aparcstats2table") : env.aparc_exit[k] # 0 }

\* the exit code of the table invocation that failed, 0 when none has
TableFailure ==
    IF TimesStarted("asegstats2table") > 0 /\ env.aseg_exit # 0 THEN env.aseg_exit
    ELSE IF AparcFailures # {}
         THEN env.aparc_exit[CHOOSE k \in AparcFailures : \A j \in AparcFailures : k <= j]
         ELSE 0

\* C21: the external tools of prep_long.py are executed in the order
\* asegstats2table, aparcstats2table, mris_preproc and mri_surf2surf, run_fsqc;
\* and once asegstats2table or an invocation of aparcstats2table has exited
\* nonzero, that invocation is the last one executed, main has returned its exit
\* code, and the Qdec file is still there
C21_StepsInOrder ==
    /\ \A i, j \in DOMAIN started :
          i < j => StepRank(started[i]) <= StepRank(started[j])
    /\ TableFailure # 0 =>
          /\ pc = "prep_exit"
          /\ rc = <<TableFailure>>
          /\ qdec_file.written
          /\ StepRank(started[Len(started)]) <= 2
          /\ AparcFailures # {} =>
                TimesStarted("aparcstats2table") \in AparcFailures
                /\ Cardinality(AparcFailures) = 1

\* the second invocation of aparcstats2table failed after asegstats2table and
\* the first invocation had succeeded
C21_Witness ==
    /\ started = <<"asegstats2table", "aparcstats2table", "aparcstats2table">>
    /\ env.aparc_exit[2] # 0
    /\ args.surf /\ args.qc
    /\ pc = "prep_exit"

\* the inputs are there and the table tools are found and succeed
RequiredPartsFine ==
    /\ ~InputsMissing
    /\ {"asegstats2table", "aparcstats2table"} \subseteq env.path
    /\ env.aseg_exit = 0
    /\ env.aparc_exit = <<0, 0>>

\* a tool of the surface step or of the quality control is missing from PATH
OptionalToolAbsent ==
    \/ args.surf /\ ~({"mris_preproc", "mri_surf2surf"} \subseteq env.path)
    \/ args.qc /\ "run_fsqc" \notin env.path

\* a tool of the surface step or of the quality control exits nonzero
OptionalToolFails ==
    \/ args.surf /\ (env.mris_exit # 0 \/ env.surf2surf_exit # 0)
    \/ args.qc /\ env.fsqc_exit # 0

\* main of prep_long.py has ended
PrepEnded == pc \in {"prep_exit", "prep_crashed", "prep_done"}

\* the run went through: Qdec file written, exit code 0, and the quality control,
\* when asked for and possible, was executed after the surface step
WentThrough ==
    /\ qdec_file.written
    /\ rc = <<0>>
    /\ (args.qc /\ "run_fsqc" \in env.path /\ qdec_file.rows # <<>>)
          => TimesStarted("run_fsqc") = 1

\* C22: when mris_preproc, mri_surf2surf or run_fsqc is missing or exits nonzero
\* (and nothing else is wrong), a run of prep_long.py still writes the Qdec
\* file, still runs the later steps and ends with exit code 0
C22_OptionalToolsNeverAbort ==
    (RequiredPartsFine /\ (OptionalToolAbsent \/ OptionalToolFails) /\ PrepEnded)
        => WentThrough

\* main of prep_long.py is running or has ended
InPrep == pc \in {"prep_start", "prep_scanned", "prep_built", "prep_written",
                  "prep_reconciled", "prep_aseg", "prep_aparc", "prep_surf",
                  "prep_exit", "prep_crashed", "prep_done"}

\* C29: in a run of prep_long.py with --link-dry-run no step creates or changes
\* a symlink of the subjects directory, and no step executes asegstats2table,
\* aparcstats2table, mris_preproc or mri_surf2surf, whatever the other flags
C29_DryRunTouchesNothing ==
    [][(InPrep /\ args.link_dry_run) =>
         (/\ Symlinks(fs') = Symlinks(fs)
          /\ \A i \in DOMAIN started' : started'[i] = "run_fsqc")]_vars

\* a dry run with every step and forced linking asked for has ended on a
\* directory whose .long. path points elsewhere: only run_fsqc was executed
C29_Witness ==
    /\ pc = "prep_done"
    /\ args.link_dry_run /\ args.link_long /\ args.link_force
    /\ args.aseg /\ args.aparc /\ args.surf /\ args.qc
    /\ env = OkEnv
    /\ L1 \in DOMAIN fs
    /\ counts.ran
    /\ started = <<"run_fsqc">>

-----------------------------------------------------------------------------
(* Writing the table and reading it back *)

\* the tp cell that goes with a session label: str(session_to_tp(ses)), or n/a
TpCellOf(ses) ==
    IF session_to_tp(ses) = NoTp THEN NA ELSE IntToStr(session_to_tp(ses))

\* read_qdec, run with these module-level names, gives back the rows of the
\* written file: one timepoint per row, in order, with the fsid and the fsid-base
\* of the row and a session label whose timepoint number is the tp cell
ReadsBack(globals) ==
    LET back == read_qdec(globals, qdec_file)
    IN  /\ back.raised = "none"
        /\ Len(back.timepoints) = Len(qdec_file.rows)
        /\ \A i \in 1..Len(qdec_file.rows) :
              /\ back.timepoints[i].fsid = qdec_file.rows[i][1]
              /\ back.timepoints[i].base = qdec_file.rows[i][2]
              /\ TpCellOf(back.timepoints[i].ses) = qdec_file.rows[i][3]

\* C24: read_qdec of apply_qdec.py returns, for the file write_qdec wrote from a
\* table of build_qdec_rows, one timepoint per row in the same order, with the
\* same fsid and fsid-base and a session label for which session_to_tp gives the
\* tp value of the row
C24_RoundTrip == qdec_file.written => ReadsBack(ApplyQdecGlobals)

====
